---- MODULE Spec2Model ----
(***************************************************************************)
(* Model of the Quote & Simulation Engine of eth-trading-mcp               *)
(* (src/src/service/trading.rs, src/src/service/utils.rs,                  *)
(* src/src/service/error.rs) against the EthereumRepository capability    *)
(* interface (src/src/repository/mod.rs).                                  *)
(*                                                                         *)
(* One request is in flight at a time.  Every `.await` on a repository     *)
(* call is one step of the model: the step takes the repository's answer   *)
(* (a value or a RepositoryError) as its input and runs the handler up to  *)
(* the next repository call or to its return.                              *)
(*                                                                         *)
(* Widths are scaled down: U256 and the 96-bit mantissa of                 *)
(* rust_decimal::Decimal are represented by U256Max and DecMaxMantissa,    *)
(* token decimals by small counts, so that every product stays inside the  *)
(* model checker's integers.                                               *)
(***************************************************************************)
EXTENDS Integers, Sequences, FiniteSets, TLC

\* ------------------------------------------------------------------------
\* Bounds of the model
\* ------------------------------------------------------------------------

\* Stand-in for the largest mantissa of rust_decimal::Decimal (2^96 - 1).
DecMaxMantissa == 79228

\* Stand-in for U256::MAX (2^256 - 1).
U256Max == 1157920

\* Stand-in for the largest scale of rust_decimal::Decimal (28 fractional
\* digits).
DecMaxScale == 4

\* Stand-in for the 18 decimals that calculate_price_impact and
\* get_price_from_uniswap pass to calculate_price, scaled as the Decimal is.
WethDecimals == 2

\* Stand-in for the largest u64 (2^64 - 1, the first digits of
\* 18446744073709551615): as 10^19 is the last power of ten that fits 64
\* bits, above the 18 decimals of WETH, 10^3 is the last that fits here.
U64Max == 1844

\* ------------------------------------------------------------------------
\* Program constants
\* ------------------------------------------------------------------------

ETH_DECIMALS == 18

TYPICAL_GAS == 150000

\* The order in which swap_tokens_v3 probes the fee tiers.
fee_tiers == <<3000, 500, 10000>>

FeeSet == {fee_tiers[i] : i \in 1..Len(fee_tiers)}

\* ------------------------------------------------------------------------
\* Option values: None is the empty sequence, Some(x) the one-element one.
\* ------------------------------------------------------------------------

None == <<>>

Some(x) == <<x>>

is_some(o) == Len(o) = 1

is_none(o) == Len(o) = 0

unwrap(o) == o[1]

\* ------------------------------------------------------------------------
\* Errors
\* ------------------------------------------------------------------------

RepositoryError == {"RpcError", "ContractError", "NetworkError", "ParseError", "Other"}

\* A repository failure of kind k raised by repository operation op; the
\* message names the operation that failed and what failed in it.
RepoErr(k, op) == [kind |-> k, msg |-> <<op, k>>]

\* A service error: its variant, its message template, the repository
\* message it wraps (if any) and the numbers formatted into the message.
ServiceError(type, msg) == [type |-> type, msg |-> msg, src |-> <<>>, args |-> <<>>]

\* Mutant of from_repository_error: every repository failure becomes an
\* InternalError.
from_repository_error_all_internal(err) ==
  [type |-> "InternalError", msg |-> "{msg}", src |-> err.msg, args |-> <<>>]

\* Mutant of from_repository_error: the repository failure is handed on under
\* its own kind.
from_repository_error_raw(err) ==
  [type |-> err.kind, msg |-> "{msg}", src |-> err.msg, args |-> <<>>]

\* impl From<RepositoryError> for ServiceError
from_repository_error(err) ==
  CASE err.kind \in {"RpcError", "NetworkError", "ContractError"} ->
         [type |-> "BlockchainError", msg |-> "Failed to interact with blockchain: {msg}",
          src |-> err.msg, args |-> <<>>]
    [] err.kind = "ParseError" ->
         [type |-> "InvalidWalletAddress", msg |-> "{msg}", src |-> err.msg, args |-> <<>>]
    [] OTHER ->
         [type |-> "InternalError", msg |-> "{msg}", src |-> err.msg, args |-> <<>>]

\* ------------------------------------------------------------------------
\* Results of an invocation
\* ------------------------------------------------------------------------

NoResult == [kind |-> "none"]

Err(e) == [kind |-> "err", error |-> e]

Ok(resp) == [kind |-> "ok", resp |-> resp]

\* The handler aborted (an arithmetic panic inside a library operator).
Panic == [kind |-> "panic"]

\* ------------------------------------------------------------------------
\* State
\* ------------------------------------------------------------------------

VARIABLES
  ledger,   \* what the chain holds: pool reserves, transactions broadcast
  service,  \* the EthereumTradingService: its repository and token registry
  pc,       \* the repository call the handler in flight is waiting on
  req,      \* the request in flight
  loc,      \* the handler's local variables
  quotes,   \* what get_v3_quote answered for each fee tier of this request
  calls,    \* the repository calls this request has made, in order
  result,   \* what the handler returned
  sched,    \* the other invocation in flight, when two run concurrently
  eval      \* a function of service/utils.rs, its arguments and what it returned

vars == <<ledger, service, pc, req, loc, quotes, calls, result, sched, eval>>

\* ------------------------------------------------------------------------
\* Texts the requests are drawn from, and what the library parsers make of
\* them.  Addresses are abbreviated to their first four hex digits.
\* ------------------------------------------------------------------------

WETH_ADDRESS == "0xc02a"

DAI_ADDRESS == "0x6b17"

\* Token texts a request may carry: a registry symbol in lower case, a
\* contract address, and a symbol the registry does not know.
TokenTexts == {"weth", "0x6b17", "FOO"}

\* Wallet texts for from_address: a well-formed and a malformed one.
WalletTexts == {"0xd8da", "not-an-address"}

AmountTexts == {"1.5", "0", "-1", "abc"}

SlippageTexts == {"0.5", "-50", "100", "150", "abc"}

VersionTexts == {"v2", "v3", "V3", "v4"}

\* Address::from_str
AddressFromStr(text) ==
  IF text \in {"0x6b17", "0xc02a", "0xd8da"} THEN Some(text) ELSE None

\* Symbol texts letter by letter: the words the model looks up, and every
\* way of writing a word in upper and lower case letters
Words == {<<"e", "t", "h">>, <<"w", "e", "t", "h">>, <<"d", "a", "i">>, <<"f", "o", "o">>}

\* char::to_ascii_uppercase on the letters of the words
char_to_uppercase(c) ==
  CASE c = "a" -> "A" [] c = "d" -> "D" [] c = "e" -> "E" [] c = "f" -> "F"
    [] c = "h" -> "H" [] c = "i" -> "I" [] c = "o" -> "O" [] c = "t" -> "T"
    [] c = "w" -> "W" [] OTHER -> c

LetterCases(word) ==
  {cs \in [1..Len(word) -> {word[i] : i \in 1..Len(word)}
                            \cup {char_to_uppercase(word[i]) : i \in 1..Len(word)}] :
     \A i \in 1..Len(word) : cs[i] \in {word[i], char_to_uppercase(word[i])}}

SymbolChars == UNION {LetterCases(word) : word \in Words}

\* The text made of the letters cs
RECURSIVE concat(_)
concat(cs) == IF cs = <<>> THEN "" ELSE Head(cs) \o concat(Tail(cs))

\* Symbol texts handed to the registry: every word in every letter case
SymbolInputs == {concat(cs) : cs \in SymbolChars}

\* The letters of each symbol text
Letters == [text \in SymbolInputs |-> CHOOSE cs \in SymbolChars : concat(cs) = text]

chars(text) == Letters[text]

IsSymbolText(text) == text \in SymbolInputs

\* str::to_uppercase on each symbol text, letter by letter
Uppercase ==
  [text \in SymbolInputs |->
     concat([i \in 1..Len(Letters[text]) |-> char_to_uppercase(Letters[text][i])])]

\* str::to_uppercase / str::to_lowercase on the texts of the model: a
\* symbol text letter by letter, the version texts as a whole
to_uppercase(text) ==
  CASE IsSymbolText(text) -> Uppercase[text]
    [] text = "v2" -> "V2"
    [] text = "v3" -> "V3"
    [] text = "v4" -> "V4"
    [] OTHER -> text

to_lowercase(text) ==
  CASE text = "V3" -> "v3"
    [] text = "FOO" -> "foo"
    [] text = "WETH" -> "weth"
    [] OTHER -> text

\* TokenRegistry::init_registry, restricted to the entries the model uses
registry == [sym \in {"ETH", "WETH", "DAI"} |->
               IF sym = "DAI" THEN DAI_ADDRESS ELSE WETH_ADDRESS]

\* Mutant of lookup: the symbol is matched as it is written.
lookup_as_written(symbol) ==
  IF symbol \in DOMAIN service.token_registry
  THEN Some(service.token_registry[symbol])
  ELSE None

\* TokenRegistry::lookup
lookup(symbol) ==
  LET symbol_upper == to_uppercase(symbol)
  IN IF symbol_upper \in DOMAIN service.token_registry
     THEN Some(service.token_registry[symbol_upper])
     ELSE None

\* TokenRegistry::contains
contains(symbol) ==
  LET symbol_upper == to_uppercase(symbol)
  IN symbol_upper \in DOMAIN service.token_registry

\* The byte of an upper case letter of a key
byte(c) ==
  CASE c = "A" -> 65 [] c = "D" -> 68 [] c = "E" -> 69 [] c = "H" -> 72
    [] c = "I" -> 73 [] c = "T" -> 84 [] c = "W" -> 87

\* Ord for String: byte by byte, a prefix before the longer text
RECURSIVE chars_le(_, _)
chars_le(a, b) ==
  IF a = <<>> THEN TRUE
  ELSE IF b = <<>> THEN FALSE
  ELSE IF byte(Head(a)) # byte(Head(b)) THEN byte(Head(a)) < byte(Head(b))
  ELSE chars_le(Tail(a), Tail(b))

string_le(a, b) == chars_le(chars(a), chars(b))

\* slice::sort on a vector of strings
RECURSIVE sort(_)
sort(v) ==
  IF v = <<>> THEN <<>>
  ELSE LET rest == sort(Tail(v))
           before == SelectSeq(rest, LAMBDA t : string_le(t, Head(v)))
           after == SelectSeq(rest, LAMBDA t : ~string_le(t, Head(v)))
       IN before \o <<Head(v)>> \o after

\* The orders in which the keys of the HashMap may be iterated
KeyOrders ==
  {ks \in [1..Cardinality(DOMAIN registry) -> DOMAIN registry] :
     \A i, j \in DOMAIN ks : i # j => ks[i] # ks[j]}

\* TokenRegistry::supported_tokens, with the keys iterated in the order keys
supported_tokens(keys) == sort(keys)

\* ------------------------------------------------------------------------
\* rust_decimal::Decimal: a signed mantissa m and a scale s, value m / 10^s
\* ------------------------------------------------------------------------

RECURSIVE Pow10(_)
Pow10(n) == IF n = 0 THEN 1 ELSE 10 * Pow10(n - 1)

Abs(x) == IF x < 0 THEN -x ELSE x

Dec(m, s) == [m |-> m, s |-> s]

\* A number text, as the parsers read it: a sign ("" or "-"), the digits
\* before the point as their value, and the digits after the point (none
\* when the text has no point).  NotANumber is a text with a character
\* that is neither a digit, a point nor a leading sign.
Txt(sign, whole, frac) == [sign |-> sign, whole |-> whole, frac |-> frac]

NotANumber == Txt("?", 0, <<>>)

\* The characters of the amount and slippage texts of the model
Chars(text) ==
  CASE text = "0.5" -> Txt("", 0, <<5>>)
    [] text = "-50" -> Txt("-", 50, <<>>)
    [] text = "100" -> Txt("", 100, <<>>)
    [] text = "150" -> Txt("", 150, <<>>)
    [] text = "1.5" -> Txt("", 1, <<5>>)
    [] text = "100.5" -> Txt("", 100, <<5>>)
    [] text = "0" -> Txt("", 0, <<>>)
    [] text = "-1" -> Txt("-", 1, <<>>)
    [] OTHER -> NotANumber

\* The digit that overflowed the mantissa while reading the fraction rounds
\* what was read so far: half and above rounds up, and a mantissa that
\* overflows by the rounding gives up one more digit.
maybe_round(m, s, digit) ==
  IF digit < 5 THEN Some(Dec(m, s))
  ELSE IF m + 1 <= DecMaxMantissa THEN Some(Dec(m + 1, s))
  ELSE IF s = 0 THEN None
  ELSE Some(Dec((m + 5) \div 10, s - 1))

\* The digits after the point, read one at a time into the mantissa m of
\* scale s
RECURSIVE ReadFraction(_, _, _)
ReadFraction(m, s, ds) ==
  IF ds = <<>> THEN Some(Dec(m, s))
  ELSE IF m * 10 + ds[1] > DecMaxMantissa THEN maybe_round(m, s, ds[1])
  ELSE ReadFraction(m * 10 + ds[1], s + 1, Tail(ds))

\* Decimal::from_str: None when the text is no decimal number or its
\* integer digits overflow the mantissa; fraction digits that overflow the
\* mantissa are rounded away.
DecimalFromStr(text) ==
  IF text.sign = "?" \/ text.whole > DecMaxMantissa THEN None
  ELSE LET parsed == ReadFraction(text.whole, 0, text.frac)
       IN IF is_none(parsed) THEN None
          ELSE IF text.sign = "-" THEN Some(Dec(-unwrap(parsed).m, unwrap(parsed).s))
          ELSE parsed

\* U256::from_str: digits only, and no more than 256 bits
U256FromStr(text) ==
  IF text.sign # "" \/ text.frac # <<>> \/ text.whole > U256Max THEN None
  ELSE Some(text.whole)

\* Decimal::from_str(&value.to_string()) for a U256 value: fails when the
\* value does not fit the mantissa.
DecimalFromU256(value) ==
  IF value <= DecMaxMantissa THEN Some(Dec(value, 0)) ELSE None

\* a - b
DecSub(a, b) ==
  LET s == IF a.s > b.s THEN a.s ELSE b.s
  IN Dec(a.m * Pow10(s - a.s) - b.m * Pow10(s - b.s), s)

\* a * b overflows (the `*` operator panics) when the product does not fit
\* the mantissa even with every fractional digit dropped.
DecMulOverflows(a, b) ==
  Abs(a.m * b.m) \div Pow10(a.s + b.s) > DecMaxMantissa

\* a * b, exact while the product fits
DecMul(a, b) == Dec(a.m * b.m, a.s + b.s)

\* The text before the '.' of value.to_string(), parsed by U256::from_str:
\* the integer part, truncated toward zero; a negative value prints a
\* leading '-', which U256::from_str rejects.
IntegerPartToU256(d) ==
  IF d.m < 0 THEN None
  ELSE IF d.m \div Pow10(d.s) > U256Max THEN None
  ELSE Some(d.m \div Pow10(d.s))

\* ------------------------------------------------------------------------
\* service/utils.rs
\* ------------------------------------------------------------------------

\* Outcome of a pure computation: a value, an error, or a panic.
Val(v) == [st |-> "ok", val |-> v]

Fail == [st |-> "err", val |-> 0]

Abort == [st |-> "panic", val |-> 0]

\* parse_amount: a decimal text is scaled by 10^decimals and truncated to
\* its integer part; a text that is no decimal is read by U256::from_str.
parse_amount(amount, decimals) ==
  IF is_some(DecimalFromStr(amount))
  THEN LET decimal_amount == unwrap(DecimalFromStr(amount))
           multiplier == Dec(Pow10(decimals), 0)
       IN IF DecMulOverflows(decimal_amount, multiplier) THEN Abort
          ELSE LET integer_part == IntegerPartToU256(DecMul(decimal_amount, multiplier))
               IN IF is_some(integer_part) THEN Val(unwrap(integer_part)) ELSE Fail
  ELSE IF is_some(U256FromStr(amount)) THEN Val(unwrap(U256FromStr(amount))) ELSE Fail

\* The digits of n, most significant first, left-padded with zeros to width
RECURSIVE PadDigits(_, _)
PadDigits(n, width) ==
  IF width = 0 THEN <<>> ELSE Append(PadDigits(n \div 10, width - 1), n % 10)

\* str::trim_end_matches('0') on a sequence of digits
RECURSIVE TrimZeros(_)
TrimZeros(ds) ==
  IF ds # <<>> /\ ds[Len(ds)] = 0 THEN TrimZeros(SubSeq(ds, 1, Len(ds) - 1)) ELSE ds

\* n / 10^k, by k divisions
RECURSIVE DivPow10(_, _)
DivPow10(n, k) == IF k = 0 THEN n ELSE DivPow10(n \div 10, k - 1)

\* format_balance: the text "whole" or "whole.frac", as the whole part and
\* the digits after the point (none when the text has no point).  The
\* remainder balance % 10^decimals is held as its zero-padded digits.
format_balance(balance, decimals) ==
  LET whole == DivPow10(balance, decimals)
      padded == PadDigits(balance, decimals)
      trimmed == TrimZeros(padded)
  IN IF trimmed = <<>> THEN Txt("", whole, <<>>)
     ELSE Txt("", whole, trimmed)

RECURSIVE GCD(_, _)
GCD(a, b) == IF b = 0 THEN a ELSE GCD(b, a % b)

\* A Decimal quotient, kept exactly as (n / d) * 10^e with n / d in lowest
\* terms and neither n nor d a multiple of ten (zero is 0 / 1 * 10^0).
RECURSIVE Ratio(_, _, _)
Ratio(n, d, e) ==
  IF n = 0 THEN [n |-> 0, d |-> 1, e |-> 0]
  ELSE IF n % 10 = 0 THEN Ratio(n \div 10, d, e + 1)
  ELSE IF d % 10 = 0 THEN Ratio(n, d \div 10, e - 1)
  ELSE LET g == GCD(n, d) IN [n |-> n \div g, d |-> d \div g, e |-> e]

\* The same quotient as a plain fraction n / d
Plain(r) ==
  IF r.e >= 0 THEN [n |-> r.n * Pow10(r.e), d |-> r.d]
  ELSE [n |-> r.n, d |-> r.d * Pow10(-r.e)]

\* u256_to_decimal: value / 10^decimals; fails when the value does not fit
\* a Decimal.
u256_to_decimal(value, decimals) ==
  IF is_none(DecimalFromU256(value)) THEN Fail
  ELSE Val(Ratio(value, 1, -decimals))

\* 10u64.pow(exp): the power while it fits 64 bits.  Beyond that the build
\* decides: with overflow checks the multiplication aborts, without them
\* the power wraps around.
pow_u64(exp) ==
  IF Pow10(exp) <= U64Max THEN {Val(Pow10(exp))}
  ELSE {Abort, Val(Pow10(exp) % (U64Max + 1))}

\* u256_to_decimal for every count of decimals: what it may return, with the
\* divisor Decimal::from(10u64.pow(decimals as u32)) as the build computes
\* it; `/=` panics on a divisor of zero.
u256_to_decimal_outcomes(value, decimals) ==
  IF is_none(DecimalFromU256(value)) THEN {Fail}
  ELSE IF decimals = 0 THEN {Val(Ratio(value, 1, 0))}
  ELSE {IF divisor.st = "panic" \/ divisor.val = 0 THEN Abort
        ELSE Val(Ratio(value, divisor.val, 0)) : divisor \in pow_u64(decimals)}

\* Decimal `/` keeps DecMaxScale fractional digits: a quotient of at most
\* half a unit of the last digit is rounded to zero.
RoundsToZero(q) ==
  Plain(q).n <= Plain(q).d \div (2 * Pow10(DecMaxScale))

\* Decimal `/` of two quotients, the divisor not zero
RatioDiv(a, b) ==
  LET q == Ratio(a.n * b.d, a.d * b.n, a.e - b.e)
  IN IF RoundsToZero(q) THEN Ratio(0, 1, 0) ELSE q

\* calculate_price
calculate_price(numerator, denominator, numerator_decimals, denominator_decimals) ==
  IF denominator = 0 THEN Fail
  ELSE LET num_decimal == u256_to_decimal(numerator, numerator_decimals)
           den_decimal == u256_to_decimal(denominator, denominator_decimals)
       IN IF num_decimal.st # "ok" \/ den_decimal.st # "ok" THEN Fail
          ELSE IF den_decimal.val.n = 0 THEN Fail
          ELSE Val(RatioDiv(num_decimal.val, den_decimal.val))

\* The literal text "0" returned in place of a computed value
ZeroText == [text |-> "0", n |-> 0, d |-> 1, e |-> 0]

\* Decimal::to_string of a computed value
DecText(r) == [text |-> "decimal", n |-> r.n, d |-> r.d, e |-> r.e]

\* The function aborted instead of returning a text (a Decimal operator
\* panicked).
PanicText == [text |-> "panic", n |-> 0, d |-> 1, e |-> 0]

\* U256::saturating_sub
saturating_sub(a, b) == IF a > b THEN a - b ELSE 0

\* U256 `+`, which wraps around
wrapping_add(a, b) == (a + b) % (U256Max + 1)

\* calculate_price_impact.  price_after / price_before panics when
\* price_before is zero.
calculate_price_impact(amount_in, amount_out, reserve_in, reserve_out) ==
  IF reserve_in = 0 \/ reserve_out = 0 \/ amount_in = 0 THEN ZeroText
  ELSE LET price_before == calculate_price(reserve_out, reserve_in, WethDecimals, WethDecimals)
           new_reserve_out == saturating_sub(reserve_out, amount_out)
           new_reserve_in == wrapping_add(reserve_in, amount_in)
           price_after == calculate_price(new_reserve_out, new_reserve_in, WethDecimals, WethDecimals)
       IN IF price_before.st # "ok" THEN ZeroText
          ELSE IF price_after.st # "ok" THEN ZeroText
          ELSE IF price_before.val.n = 0 THEN PanicText
          ELSE LET pa == Plain(price_after.val)
                   pb == Plain(price_before.val)
                   \* |1 - price_after / price_before| is |num| / den, and
                   \* `* Decimal::from(100)` moves the point two places
                   num == pb.n * pa.d - pa.n * pb.d
                   den == pb.n * pa.d
               IN DecText(Ratio(Abs(num), den, 2))

\* calculate_exchange_rate
calculate_exchange_rate(amount_in, amount_out, decimals_in, decimals_out) ==
  IF amount_in > 0
  THEN LET rate == calculate_price(amount_out, amount_in, decimals_out, decimals_in)
       IN IF rate.st = "ok" THEN DecText(rate.val) ELSE ZeroText
  ELSE ZeroText

\* calculate_minimum_output: amount_out * (100 - slippage) / 100, the
\* integer part of its text read back as a U256; U256::ZERO when either
\* conversion fails.  The Decimal product panics when it overflows.
calculate_minimum_output(amount_out, slippage) ==
  LET percentage == DecSub(Dec(100, 0), slippage)
  IN IF is_none(DecimalFromU256(amount_out)) THEN Val(0)
     ELSE LET amount_decimal == unwrap(DecimalFromU256(amount_out))
          IN IF DecMulOverflows(amount_decimal, percentage) THEN Abort
             ELSE LET product == DecMul(amount_decimal, percentage)
                      minimum == Dec(product.m, product.s + 2)
                      parsed == IntegerPartToU256(minimum)
                  IN IF is_some(parsed) THEN Val(unwrap(parsed)) ELSE Val(0)

\* ------------------------------------------------------------------------
\* The ledger behind the repository, and the repository's answers
\* ------------------------------------------------------------------------

\* Reserves of the requested pair, in the caller's token order: None when
\* the factory knows no pool for the pair.
PoolStates ==
  {None, Some(<<0, 2000>>), Some(<<1000, 0>>), Some(<<1000, 2000>>),
   Some(<<1000, DecMaxMantissa + 1>>)}

\* decimals() and symbol() of the token contracts
TokenMetadata(token) ==
  IF token = WETH_ADDRESS THEN [symbol |-> "WETH", decimals |-> 2]
  ELSE [symbol |-> "DAI", decimals |-> 1]

\* Final output amounts the V2 router may report
RouterAmounts == {0, 5, 1000, 70000, 100000}

\* Output amounts the V3 quoter may report for a tier
QuoteAmounts == {0, 90, 120}

\* The gas estimate the V3 quoter reports for a tier
QuoteGas(fee) == 100000 + fee

\* Gas reported by a successful swap simulation
SimulatedGas == {123456}

\* Gas prices the node may report
GasPrices == {30}

\* A repository answer: Ok(val) or Err(err)
RepoOk(v) == [ok |-> TRUE, val |-> v, err |-> RepoErr("Other", "")]

RepoFail(k, op) == [ok |-> FALSE, val |-> <<>>, err |-> RepoErr(k, op)]

RepoFailures(op) == {RepoFail(k, op) : k \in RepositoryError}

\* Mutant of rpc_methods: the swap simulations send their transaction
\* instead of estimating its gas.
rpc_methods_sending(op) ==
  CASE op = "get_eth_balance" -> {"eth_getBalance"}
    [] op = "get_gas_price" -> {"eth_gasPrice"}
    [] op \in {"simulate_swap", "simulate_v3_swap"} -> {"eth_call", "eth_sendRawTransaction"}
    [] OTHER -> {"eth_call"}

\* The JSON-RPC methods AlloyEthereumRepository issues for an operation:
\* provider.get_balance, provider.get_gas_price, contract `.call()` and, in
\* the two swap simulations, `.call()` followed by `.estimate_gas()`.
rpc_methods(op) ==
  CASE op = "get_eth_balance" -> {"eth_getBalance"}
    [] op = "get_gas_price" -> {"eth_gasPrice"}
    [] op \in {"simulate_swap", "simulate_v3_swap"} -> {"eth_call", "eth_estimateGas"}
    [] OTHER -> {"eth_call"}

\* The ledger after the node has served the methods of operation op: only
\* a broadcast transaction changes it.
ledger_after(l, op) ==
  IF "eth_sendRawTransaction" \in rpc_methods(op)
  THEN [l EXCEPT !.broadcasts = @ + 1]
  ELSE l

\* A repository call as it is logged: the operation, its address
\* arguments, its numeric arguments, whether it answered Ok, the numbers of
\* its answer (none for an Err) and the JSON-RPC methods issued for it
Call(op, tokens, nums, answer, ret) ==
  [op |-> op, tokens |-> tokens, nums |-> nums, ok |-> answer.ok,
   ret |-> IF answer.ok THEN ret ELSE <<>>,
   rpc |-> rpc_methods(op)]

\* ------------------------------------------------------------------------
\* Requests and initial state
\* ------------------------------------------------------------------------

NoMetadata == [symbol |-> "", decimals |-> 0]

Locals0 ==
  [address |-> "", token_address |-> "", symbol |-> "", token_metadata |-> NoMetadata,
   reserve_token |-> 0, reserve_weth |-> 0, price_eth |-> [n |-> 0, d |-> 1, e |-> 0],
   version |-> "", from_token |-> "", to_token |-> "",
   from_metadata |-> NoMetadata, to_metadata |-> NoMetadata, to_symbol |-> "",
   amount_in |-> 0, slippage |-> Dec(0, 0), amount_out |-> 0,
   minimum_output |-> 0, best_quote |-> None, fee_idx |-> 1,
   selected_fee |-> 0, gas_estimate |-> 0, gas |-> 0,
   reserve_in |-> 0, reserve_out |-> 0]

\* No request in flight.  A request in flight carries the tool it was sent
\* to and the fields of that tool's request type; the other fields stay as
\* they are here.
NoRequest ==
  [tool |-> "",
   wallet_address |-> "", token_contract_address |-> None,
   price_request |-> None,
   from_token |-> "", to_token |-> "", amount |-> "", slippage_tolerance |-> "",
   uniswap_version |-> None, from_address |-> None]

Request(tool, r) ==
  [f \in DOMAIN NoRequest |->
     IF f = "tool" THEN tool ELSE IF f \in DOMAIN r THEN r[f] ELSE NoRequest[f]]

\* GetBalanceRequest
GetBalanceRequest ==
  [wallet_address : WalletTexts,
   token_contract_address : {None, Some("0x6b17"), Some("not-an-address")}]

\* GetTokenPriceRequest: Symbol { symbol } or ContractAddress { contract_address }
GetTokenPriceRequest ==
  {[price_request |-> Some(<<"Symbol", t>>)] : t \in {"weth", "ETH", "DAI", "FOO"}}
    \cup {[price_request |-> Some(<<"ContractAddress", t>>)] : t \in {"0xc02a", "0x6b17", "not-an-address"}}

\* The swap requests of the model: a well-formed swap of 1.5 at 0.5 percent
\* under every version text and from_address; every token, amount and
\* slippage text under both versions without a from_address; and swaps of
\* amount zero and at a slippage of exactly 100 percent.
SwapTokensRequest ==
  [from_token : {"weth"}, to_token : {"0x6b17"},
   amount : {"1.5"}, slippage_tolerance : {"0.5"},
   uniswap_version : {None} \cup {Some(v) : v \in VersionTexts},
   from_address : {None} \cup {Some(w) : w \in WalletTexts}]
  \cup
  [from_token : TokenTexts \ {"0x6b17"}, to_token : TokenTexts \ {"weth"},
   amount : AmountTexts \ {"0"}, slippage_tolerance : SlippageTexts \ {"100"},
   uniswap_version : {Some("v2"), Some("v3")},
   from_address : {None}]
  \cup
  [from_token : {"weth"}, to_token : {"0x6b17"},
   amount : {"0", "1.5"}, slippage_tolerance : {"0.5", "100"},
   uniswap_version : {Some("v2"), Some("v3")},
   from_address : {None}]

NotProbed == [st |-> "none", amount_out |-> 0, gas_estimate |-> 0]

\* Private keys the configuration may hold: none (read-only mode) or one
\* from which a wallet is built.
WalletKeys == {None, Some("0xac09")}

\* The state of one invocation: where its handler is suspended, its
\* request, its locals, the answers it has received and its result.
Context(at, r, l, q, cs, res) ==
  [pc |-> at, req |-> r, loc |-> l, quotes |-> q, calls |-> cs, result |-> res]

\* An invocation that has not started
IdleContext == Context("idle", NoRequest, Locals0, [f \in FeeSet |-> NotProbed], <<>>, NoResult)

\* No repository answers fixed in advance
NoWorld == [quote_3000 |-> 0, router_out |-> 0]

\* No function of service/utils.rs is being evaluated on its own.
NoEval == [fn |-> "", value |-> 0, decimals |-> 0, args |-> <<>>, out |-> <<>>]

\* One invocation at a time: no other invocation is in flight.
Sequential(s) ==
  [phase |-> "sequential", parked |-> IdleContext, world |-> NoWorld,
   alone |-> [req |-> NoRequest, result |-> NoResult], constructed |-> s]

\* EthereumTradingService::new
Init ==
  /\ ledger \in [reserves : PoolStates, broadcasts : {0}]
  /\ service \in [repository : [wallet : WalletKeys], token_registry : {registry}]
  /\ pc = "idle"
  /\ req = NoRequest
  /\ loc = Locals0
  /\ quotes = [f \in FeeSet |-> NotProbed]
  /\ calls = <<>>
  /\ result = NoResult
  /\ sched = Sequential(service)
  /\ eval = NoEval

\* The handler returns res.
Finish(res) ==
  /\ pc' = "done"
  /\ result' = res

\* ------------------------------------------------------------------------
\* service/trading.rs: helpers of the swap handlers
\* ------------------------------------------------------------------------

Resolved(addr) == [st |-> "ok", val |-> addr, error |-> ServiceError("", "")]

Unresolved(e) == [st |-> "err", val |-> "", error |-> e]

\* lookup_token_address
lookup_token_address(symbol) ==
  IF is_some(lookup(symbol)) THEN Resolved(unwrap(lookup(symbol)))
  ELSE Unresolved(ServiceError("TokenNotFound", "{symbol} (Supported tokens: {list})"))

\* Mutant of parse_token_address_or_symbol: every token text goes through
\* the registry.
parse_token_address_or_symbol_lookup_only(token) ==
  lookup_token_address(token)

\* parse_token_address_or_symbol
parse_token_address_or_symbol(token) ==
  IF is_some(AddressFromStr(token)) THEN Resolved(unwrap(AddressFromStr(token)))
  ELSE LET address_str == lookup_token_address(token)
       IN IF address_str.st # "ok" THEN address_str
          ELSE IF is_some(AddressFromStr(address_str.val)) THEN address_str
          ELSE Unresolved(ServiceError("InvalidWalletAddress", "{e}"))

\* Mutant of update_best_quote: the first non-zero quote is kept and never
\* replaced by a higher one.
update_best_quote_first_success(best_quote, amount_out, gas_estimate, fee) ==
  IF amount_out # 0 /\ is_none(best_quote)
  THEN Some(<<amount_out, gas_estimate, fee>>)
  ELSE best_quote

\* Mutant of update_best_quote: `>=` in place of `>`, so that a later tier
\* with the same output replaces the earlier one.
update_best_quote_last_tie(best_quote, amount_out, gas_estimate, fee) ==
  IF amount_out # 0
  THEN IF is_none(best_quote) \/ amount_out >= unwrap(best_quote)[1]
       THEN Some(<<amount_out, gas_estimate, fee>>)
       ELSE best_quote
  ELSE best_quote

\* Mutant of update_best_quote: the is_zero check is dropped.
update_best_quote_accepts_zero(best_quote, amount_out, gas_estimate, fee) ==
  IF is_none(best_quote) \/ amount_out > unwrap(best_quote)[1]
  THEN Some(<<amount_out, gas_estimate, fee>>)
  ELSE best_quote

\* Mutant of update_best_quote: a higher quote replaces the amount and the
\* fee tier and keeps the gas estimate of the quote it replaces.
update_best_quote_keeps_gas(best_quote, amount_out, gas_estimate, fee) ==
  IF amount_out # 0
  THEN IF is_none(best_quote) THEN Some(<<amount_out, gas_estimate, fee>>)
       ELSE IF amount_out > unwrap(best_quote)[1]
       THEN Some(<<amount_out, unwrap(best_quote)[2], fee>>)
       ELSE best_quote
  ELSE best_quote

\* swap_tokens_v3, the body of the Ok arm of the probing loop: the quote
\* kept after a tier answered (amount_out, gas_estimate).
update_best_quote(best_quote, amount_out, gas_estimate, fee) ==
  IF amount_out # 0
  THEN IF is_none(best_quote) \/ amount_out > unwrap(best_quote)[1]
       THEN Some(<<amount_out, gas_estimate, fee>>)
       ELSE best_quote
  ELSE best_quote

\* Mutant of on_quote_error: the error is returned with `?`.
on_quote_error_propagates(e) == Some(from_repository_error(e))

\* swap_tokens_v3, the Err arm of the probing loop: the error is logged and
\* nothing is returned.
on_quote_error(e) == None

\* Mutant of probe_continues: the loop breaks at the first usable quote.
probe_continues_until_success(fee_idx, answer) ==
  fee_idx < Len(fee_tiers) /\ ~(answer.ok /\ answer.val[1] # 0)

\* swap_tokens_v3, `for fee in fee_tiers`: the loop goes on to the next tier
\* whatever the tier at fee_idx answered.
probe_continues(fee_idx, answer) == fee_idx < Len(fee_tiers)

\* Mutant of zero_output: the zero check is skipped.
zero_output_unchecked(amount_out) == FALSE

\* swap_tokens_v2, `if amount_out.is_zero()`
zero_output(amount_out) == amount_out = 0

\* Mutant of zero_output_diagnostic: the answer of the reserves fetch is
\* ignored and the pool is always reported missing.
zero_output_diagnostic_ignores_reserves(reserves) ==
  [type |-> "SwapSimulationFailed",
   msg |-> "No liquidity pool found for {}/{} pair",
   src |-> <<>>, args |-> <<>>]

\* swap_tokens_v2, the diagnostic of the zero-output path: one message when
\* the reserves were fetched (it quotes them), another when they were not.
zero_output_diagnostic(reserves) ==
  IF reserves.ok
  THEN [type |-> "SwapSimulationFailed",
        msg |-> "Estimated output is 0 ... 1. Insufficient liquidity 2. Input amount too small 3. The swap path may need intermediate tokens",
        src |-> <<>>, args |-> reserves.val]
  ELSE [type |-> "SwapSimulationFailed",
        msg |-> "No liquidity pool found for {}/{} pair",
        src |-> <<>>, args |-> <<>>]

NotAvailable == [text |-> "N/A (V3)", n |-> 0, d |-> 1, e |-> 0]

\* SwapTokensResponse
SwapTokensResponse(l, version, gas, gas_price, price_impact) ==
  [estimated_output |-> format_balance(l.amount_out, l.to_metadata.decimals),
   estimated_output_raw |-> l.amount_out,
   minimum_output |-> format_balance(l.minimum_output, l.to_metadata.decimals),
   estimated_gas |-> gas,
   estimated_gas_eth |-> format_balance(gas * gas_price, ETH_DECIMALS),
   price_impact |-> price_impact,
   exchange_rate |-> calculate_exchange_rate(l.amount_in, l.amount_out,
                       l.from_metadata.decimals, l.to_metadata.decimals),
   transaction_data |-> [version |-> version, fee |-> l.selected_fee,
                         from_token |-> l.from_token, to_token |-> l.to_token]]

\* ------------------------------------------------------------------------
\* swap_tokens_impl: version dispatch and token resolution, up to the first
\* repository call
\* ------------------------------------------------------------------------

\* Mutant of version_branch: the version text is matched as written.
version_branch_case_sensitive(uniswap_version) == uniswap_version

\* swap_tokens_impl, `match uniswap_version.to_lowercase().as_str()`: the
\* text the match arms are compared with.
version_branch(uniswap_version) == to_lowercase(uniswap_version)

swap_tokens_impl(r) ==
  /\ pc = "idle"
  /\ req' = Request("swap_tokens", r)
  /\ LET uniswap_version == IF is_some(r.uniswap_version) THEN unwrap(r.uniswap_version) ELSE "v2"
         version == version_branch(uniswap_version)
         from_token == parse_token_address_or_symbol(r.from_token)
         to_token == parse_token_address_or_symbol(r.to_token)
     IN IF version \notin {"v2", "v3"}
        THEN /\ Finish(Err(ServiceError("InvalidAmount", "Invalid Uniswap version: {}. Must be 'v2' or 'v3'")))
             /\ UNCHANGED loc
        ELSE IF from_token.st # "ok"
        THEN /\ Finish(Err(from_token.error))
             /\ loc' = [loc EXCEPT !.version = version]
        ELSE IF to_token.st # "ok"
        THEN /\ Finish(Err(to_token.error))
             /\ loc' = [loc EXCEPT !.version = version, !.from_token = from_token.val]
        ELSE /\ pc' = IF version = "v2" THEN "v2_from_metadata" ELSE "v3_from_metadata"
             /\ loc' = [loc EXCEPT !.version = version, !.from_token = from_token.val,
                                   !.to_token = to_token.val]
             /\ UNCHANGED result
  /\ UNCHANGED <<ledger, service, sched, eval, quotes, calls>>

\* The answers of the repository operations
MetadataAnswers(token) ==
  {RepoOk(TokenMetadata(token))} \cup RepoFailures("get_token_metadata")

QuoteAnswers(fee) ==
  {RepoOk(<<a, QuoteGas(fee)>>) : a \in QuoteAmounts} \cup RepoFailures("get_v3_quote")

AmountsOutAnswers(amount_in) ==
  {RepoOk(<<amount_in, a>>) : a \in RouterAmounts} \cup {RepoOk(<<>>)}
    \cup RepoFailures("get_swap_amounts_out")

ReservesAnswers ==
  (IF is_some(ledger.reserves) THEN {RepoOk(unwrap(ledger.reserves))} ELSE {})
    \cup RepoFailures("get_uniswap_pair_reserves")

SimulateAnswers(op) == {RepoOk(g) : g \in SimulatedGas} \cup RepoFailures(op)

GasPriceAnswers == {RepoOk(g) : g \in GasPrices} \cup RepoFailures("get_gas_price")

\* parse_amount and Decimal::from_str(&req.slippage_tolerance), as both
\* handlers run them after the from-token metadata is known: the error
\* returned, if any.
parse_inputs(r, decimals) ==
  LET amount_in == parse_amount(Chars(r.amount), decimals)
      slippage == DecimalFromStr(Chars(r.slippage_tolerance))
  IN IF amount_in.st = "panic" THEN Panic
     ELSE IF amount_in.st = "err" THEN Err(ServiceError("InvalidAmount", "{e}"))
     ELSE IF is_none(slippage) THEN Err(ServiceError("InvalidAmount", "Invalid slippage: {e}"))
     ELSE NoResult

\* ------------------------------------------------------------------------
\* swap_tokens_v3
\* ------------------------------------------------------------------------

\* get_token_metadata(from_token).await?
v3_get_from_metadata(answer) ==
  /\ pc = "v3_from_metadata"
  /\ calls' = Append(calls, Call("get_token_metadata", <<loc.from_token>>, <<>>, answer, <<answer.val.decimals>>))
  /\ IF ~answer.ok
     THEN /\ Finish(Err(from_repository_error(answer.err)))
          /\ UNCHANGED loc
     ELSE /\ pc' = "v3_to_metadata"
          /\ loc' = [loc EXCEPT !.from_metadata = answer.val]
          /\ UNCHANGED result
  /\ ledger' = ledger_after(ledger, "get_token_metadata")
  /\ UNCHANGED <<service, sched, eval, req, quotes>>

\* get_token_metadata(to_token).await?, then the amount and the slippage
\* are parsed and the probing loop is entered.
v3_get_to_metadata(answer) ==
  /\ pc = "v3_to_metadata"
  /\ calls' = Append(calls, Call("get_token_metadata", <<loc.to_token>>, <<>>, answer, <<answer.val.decimals>>))
  /\ IF ~answer.ok
     THEN /\ Finish(Err(from_repository_error(answer.err)))
          /\ UNCHANGED loc
     ELSE LET inputs == parse_inputs(req, loc.from_metadata.decimals)
          IN IF inputs.kind # "none"
             THEN /\ Finish(inputs)
                  /\ loc' = [loc EXCEPT !.to_metadata = answer.val]
             ELSE /\ pc' = "v3_quote"
                  /\ loc' = [loc EXCEPT !.to_metadata = answer.val,
                               !.amount_in = parse_amount(Chars(req.amount), loc.from_metadata.decimals).val,
                               !.slippage = unwrap(DecimalFromStr(Chars(req.slippage_tolerance))),
                               !.best_quote = None,
                               !.fee_idx = 1]
                  /\ UNCHANGED result
  /\ ledger' = ledger_after(ledger, "get_token_metadata")
  /\ UNCHANGED <<service, sched, eval, req, quotes>>

\* One pass of `for fee in fee_tiers`: get_v3_quote(.., fee).await and the
\* match on its answer; after the last tier, the code up to the next
\* repository call (best_quote.ok_or_else, calculate_minimum_output, the
\* parse of from_address).
v3_get_quote(answer) ==
  /\ pc = "v3_quote"
  /\ LET fee == fee_tiers[loc.fee_idx]
         best_quote == IF answer.ok
                       THEN update_best_quote(loc.best_quote, answer.val[1], answer.val[2], fee)
                       ELSE loc.best_quote
         fatal == IF answer.ok THEN None ELSE on_quote_error(answer.err)
     IN /\ calls' = Append(calls, Call("get_v3_quote", <<loc.from_token, loc.to_token>>,
                                       <<loc.amount_in, fee>>, answer, answer.val))
        /\ quotes' = [quotes EXCEPT ![fee] =
                        IF answer.ok
                        THEN [st |-> "ok", amount_out |-> answer.val[1], gas_estimate |-> answer.val[2]]
                        ELSE [st |-> "err", amount_out |-> 0, gas_estimate |-> 0]]
        /\ IF is_some(fatal)
           THEN /\ Finish(Err(unwrap(fatal)))
                /\ UNCHANGED loc
           ELSE IF probe_continues(loc.fee_idx, answer)
           THEN /\ loc' = [loc EXCEPT !.best_quote = best_quote, !.fee_idx = loc.fee_idx + 1]
                /\ UNCHANGED <<pc, result>>
           ELSE IF is_none(best_quote)
           THEN /\ Finish(Err(ServiceError("SwapSimulationFailed",
                                "No V3 liquidity pool found for {}/{} pair across all fee tiers")))
                /\ loc' = [loc EXCEPT !.best_quote = best_quote]
           ELSE LET amount_out == unwrap(best_quote)[1]
                    gas_estimate == unwrap(best_quote)[2]
                    selected_fee == unwrap(best_quote)[3]
                    minimum_output == calculate_minimum_output(amount_out, loc.slippage)
                    selected == [loc EXCEPT !.best_quote = best_quote,
                                            !.amount_out = amount_out,
                                            !.gas_estimate = gas_estimate,
                                            !.selected_fee = selected_fee,
                                            !.minimum_output = minimum_output.val]
                IN IF minimum_output.st = "panic"
                   THEN /\ Finish(Panic)
                        /\ loc' = selected
                   ELSE IF is_none(req.from_address)
                   THEN /\ pc' = "v3_gas_price"
                        /\ loc' = [selected EXCEPT !.gas = gas_estimate]
                        /\ UNCHANGED result
                   ELSE IF is_none(AddressFromStr(unwrap(req.from_address)))
                   THEN /\ Finish(Err(ServiceError("InvalidWalletAddress", "{e}")))
                        /\ loc' = selected
                   ELSE /\ pc' = "v3_simulate"
                        /\ loc' = selected
                        /\ UNCHANGED result
  /\ ledger' = ledger_after(ledger, "get_v3_quote")
  /\ UNCHANGED <<service, sched, eval, req>>

\* Mutant of v3_simulate_swap: a failed simulation falls back to the typical
\* gas of the V2 branch.
v3_simulate_swap_typical_gas(answer) ==
  /\ pc = "v3_simulate"
  /\ calls' = Append(calls, Call("simulate_v3_swap",
                                 <<unwrap(req.from_address), loc.from_token, loc.to_token>>,
                                 <<loc.amount_in, loc.minimum_output, loc.selected_fee>>,
                                 answer, <<answer.val>>))
  /\ loc' = [loc EXCEPT !.gas = IF answer.ok THEN answer.val ELSE TYPICAL_GAS]
  /\ pc' = "v3_gas_price"
  /\ ledger' = ledger_after(ledger, "simulate_v3_swap")
  /\ UNCHANGED <<service, sched, eval, req, quotes, result>>

\* simulate_v3_swap(..).await: Ok(gas) keeps the simulated gas, Err(_) the
\* gas estimate of the selected quote.
v3_simulate_swap(answer) ==
  /\ pc = "v3_simulate"
  /\ calls' = Append(calls, Call("simulate_v3_swap",
                                 <<unwrap(req.from_address), loc.from_token, loc.to_token>>,
                                 <<loc.amount_in, loc.minimum_output, loc.selected_fee>>,
                                 answer, <<answer.val>>))
  /\ loc' = [loc EXCEPT !.gas = IF answer.ok THEN answer.val ELSE loc.gas_estimate]
  /\ pc' = "v3_gas_price"
  /\ ledger' = ledger_after(ledger, "simulate_v3_swap")
  /\ UNCHANGED <<service, sched, eval, req, quotes, result>>

\* format_gas_cost(gas).await?, then the response is built.
v3_format_gas_cost(answer) ==
  /\ pc = "v3_gas_price"
  /\ calls' = Append(calls, Call("get_gas_price", <<>>, <<>>, answer, <<answer.val>>))
  /\ IF ~answer.ok
     THEN Finish(Err(from_repository_error(answer.err)))
     ELSE Finish(Ok(SwapTokensResponse(loc, "V3", loc.gas, answer.val, NotAvailable)))
  /\ ledger' = ledger_after(ledger, "get_gas_price")
  /\ UNCHANGED <<service, sched, eval, req, loc, quotes>>

\* ------------------------------------------------------------------------
\* swap_tokens_v2
\* ------------------------------------------------------------------------

\* get_token_metadata(from_token).await?, then the amount and the slippage
\* are parsed.
v2_get_from_metadata(answer) ==
  /\ pc = "v2_from_metadata"
  /\ calls' = Append(calls, Call("get_token_metadata", <<loc.from_token>>, <<>>, answer, <<answer.val.decimals>>))
  /\ IF ~answer.ok
     THEN /\ Finish(Err(from_repository_error(answer.err)))
          /\ UNCHANGED loc
     ELSE LET inputs == parse_inputs(req, answer.val.decimals)
          IN IF inputs.kind # "none"
             THEN /\ Finish(inputs)
                  /\ loc' = [loc EXCEPT !.from_metadata = answer.val]
             ELSE /\ pc' = "v2_amounts_out"
                  /\ loc' = [loc EXCEPT !.from_metadata = answer.val,
                               !.amount_in = parse_amount(Chars(req.amount), answer.val.decimals).val,
                               !.slippage = unwrap(DecimalFromStr(Chars(req.slippage_tolerance)))]
                  /\ UNCHANGED result
  /\ ledger' = ledger_after(ledger, "get_token_metadata")
  /\ UNCHANGED <<service, sched, eval, req, quotes>>

\* get_swap_output_amount(amount_in, &path).await?, the zero-output check
\* and calculate_minimum_output.
v2_get_swap_amounts_out(answer) ==
  /\ pc = "v2_amounts_out"
  /\ calls' = Append(calls, Call("get_swap_amounts_out", <<loc.from_token, loc.to_token>>,
                                 <<loc.amount_in>>, answer, answer.val))
  /\ IF ~answer.ok
     THEN /\ Finish(Err(from_repository_error(answer.err)))
          /\ UNCHANGED loc
     ELSE IF answer.val = <<>>
     THEN /\ Finish(Err(ServiceError("SwapSimulationFailed", "No output amount returned")))
          /\ UNCHANGED loc
     ELSE LET amount_out == answer.val[Len(answer.val)]
              minimum_output == calculate_minimum_output(amount_out, loc.slippage)
          IN IF zero_output(amount_out)
             THEN /\ pc' = "v2_zero_to_metadata"
                  /\ loc' = [loc EXCEPT !.amount_out = amount_out]
                  /\ UNCHANGED result
             ELSE IF minimum_output.st = "panic"
             THEN /\ Finish(Panic)
                  /\ loc' = [loc EXCEPT !.amount_out = amount_out]
             ELSE /\ pc' = "v2_to_metadata"
                  /\ loc' = [loc EXCEPT !.amount_out = amount_out,
                                        !.minimum_output = minimum_output.val]
                  /\ UNCHANGED result
  /\ ledger' = ledger_after(ledger, "get_swap_amounts_out")
  /\ UNCHANGED <<service, sched, eval, req, quotes>>

\* Zero output: get_token_metadata(to_token).await.ok()
v2_zero_get_to_metadata(answer) ==
  /\ pc = "v2_zero_to_metadata"
  /\ calls' = Append(calls, Call("get_token_metadata", <<loc.to_token>>, <<>>, answer, <<answer.val.decimals>>))
  /\ loc' = [loc EXCEPT !.to_symbol = IF answer.ok THEN answer.val.symbol ELSE "Unknown"]
  /\ pc' = "v2_zero_reserves"
  /\ ledger' = ledger_after(ledger, "get_token_metadata")
  /\ UNCHANGED <<service, sched, eval, req, quotes, result>>

\* Zero output: get_uniswap_pair_reserves(from_token, to_token).await and
\* the diagnostic built from its answer.
v2_zero_get_reserves(answer) ==
  /\ pc = "v2_zero_reserves"
  /\ calls' = Append(calls, Call("get_uniswap_pair_reserves", <<loc.from_token, loc.to_token>>, <<>>,
                     answer, answer.val))
  /\ Finish(Err(zero_output_diagnostic(answer)))
  /\ ledger' = ledger_after(ledger, "get_uniswap_pair_reserves")
  /\ UNCHANGED <<service, sched, eval, req, loc, quotes>>

\* get_token_metadata(to_token).await?
v2_get_to_metadata(answer) ==
  /\ pc = "v2_to_metadata"
  /\ calls' = Append(calls, Call("get_token_metadata", <<loc.to_token>>, <<>>, answer, <<answer.val.decimals>>))
  /\ IF ~answer.ok
     THEN /\ Finish(Err(from_repository_error(answer.err)))
          /\ UNCHANGED loc
     ELSE /\ pc' = "v2_reserves"
          /\ loc' = [loc EXCEPT !.to_metadata = answer.val]
          /\ UNCHANGED result
  /\ ledger' = ledger_after(ledger, "get_token_metadata")
  /\ UNCHANGED <<service, sched, eval, req, quotes>>

\* get_uniswap_pair_reserves(from_token, to_token).await?, then
\* estimate_swap_gas up to its repository call.
v2_get_reserves(answer) ==
  /\ pc = "v2_reserves"
  /\ calls' = Append(calls, Call("get_uniswap_pair_reserves", <<loc.from_token, loc.to_token>>, <<>>,
                     answer, answer.val))
  /\ IF ~answer.ok
     THEN /\ Finish(Err(from_repository_error(answer.err)))
          /\ UNCHANGED loc
     ELSE LET fetched == [loc EXCEPT !.reserve_in = answer.val[1], !.reserve_out = answer.val[2]]
          IN IF is_none(req.from_address)
             THEN /\ pc' = "v2_gas_price"
                  /\ loc' = [fetched EXCEPT !.gas = TYPICAL_GAS]
                  /\ UNCHANGED result
             ELSE IF is_none(AddressFromStr(unwrap(req.from_address)))
             THEN /\ Finish(Err(ServiceError("InvalidWalletAddress", "{e}")))
                  /\ loc' = fetched
             ELSE /\ pc' = "v2_simulate"
                  /\ loc' = fetched
                  /\ UNCHANGED result
  /\ ledger' = ledger_after(ledger, "get_uniswap_pair_reserves")
  /\ UNCHANGED <<service, sched, eval, req, quotes>>

\* Mutant of v2_simulate_swap: the quoted output is passed where the minimum
\* output belongs.
v2_simulate_swap_quoted_output(answer) ==
  /\ pc = "v2_simulate"
  /\ calls' = Append(calls, Call("simulate_swap",
                                 <<unwrap(req.from_address), loc.from_token, loc.to_token>>,
                                 <<loc.amount_in, loc.amount_out>>,
                                 answer, <<answer.val>>))
  /\ loc' = [loc EXCEPT !.gas = IF answer.ok THEN answer.val ELSE TYPICAL_GAS]
  /\ pc' = "v2_gas_price"
  /\ ledger' = ledger_after(ledger, "simulate_swap")
  /\ UNCHANGED <<service, sched, eval, req, quotes, result>>

\* estimate_swap_gas: simulate_swap(..).await; Ok(gas) keeps the simulated
\* gas, Err(_) falls back to get_typical_gas_cost.
v2_simulate_swap(answer) ==
  /\ pc = "v2_simulate"
  /\ calls' = Append(calls, Call("simulate_swap",
                                 <<unwrap(req.from_address), loc.from_token, loc.to_token>>,
                                 <<loc.amount_in, loc.minimum_output>>,
                                 answer, <<answer.val>>))
  /\ loc' = [loc EXCEPT !.gas = IF answer.ok THEN answer.val ELSE TYPICAL_GAS]
  /\ pc' = "v2_gas_price"
  /\ ledger' = ledger_after(ledger, "simulate_swap")
  /\ UNCHANGED <<service, sched, eval, req, quotes, result>>

\* format_gas_cost(gas).await?, then the metrics and the response.
v2_format_gas_cost(answer) ==
  /\ pc = "v2_gas_price"
  /\ calls' = Append(calls, Call("get_gas_price", <<>>, <<>>, answer, <<answer.val>>))
  /\ IF ~answer.ok
     THEN Finish(Err(from_repository_error(answer.err)))
     ELSE LET price_impact == calculate_price_impact(loc.amount_in, loc.amount_out,
                                                     loc.reserve_in, loc.reserve_out)
          IN IF price_impact = PanicText THEN Finish(Panic)
             ELSE Finish(Ok(SwapTokensResponse(loc, "V2", loc.gas, answer.val, price_impact)))
  /\ ledger' = ledger_after(ledger, "get_gas_price")
  /\ UNCHANGED <<service, sched, eval, req, loc, quotes>>

\* ------------------------------------------------------------------------
\* get_balance_impl
\* ------------------------------------------------------------------------

\* Balances the node may report
Balances == {0, 1500, U256Max}

\* TokenBalance of get_erc20_balance
TokenBalance(token, balance) ==
  [balance |-> balance, decimals |-> TokenMetadata(token).decimals,
   symbol |-> TokenMetadata(token).symbol]

EthBalanceAnswers == {RepoOk(b) : b \in Balances} \cup RepoFailures("get_eth_balance")

Erc20BalanceAnswers(token) ==
  {RepoOk(TokenBalance(token, b)) : b \in Balances} \cup RepoFailures("get_erc20_balance")

\* GetBalanceResponse
GetBalanceResponse(balance, decimals, symbol) ==
  [balance |-> balance, formatted_balance |-> format_balance(balance, decimals),
   decimals |-> decimals, symbol |-> symbol]

\* get_balance_impl with the wallet address used unparsed
get_balance_impl_unparsed(r) ==
  /\ pc = "idle"
  /\ req' = Request("get_balance", r)
  /\ pc' = IF is_none(r.token_contract_address) THEN "balance_eth" ELSE "balance_erc20"
  /\ loc' = [loc EXCEPT !.address = r.wallet_address,
                        !.token_address = IF is_none(r.token_contract_address) THEN @
                                          ELSE unwrap(r.token_contract_address)]
  /\ UNCHANGED <<ledger, service, sched, eval, quotes, calls, result>>

\* get_balance_impl up to its repository call: both addresses are parsed.
get_balance_impl(r) ==
  /\ pc = "idle"
  /\ req' = Request("get_balance", r)
  /\ IF is_none(AddressFromStr(r.wallet_address))
     THEN /\ Finish(Err(ServiceError("InvalidWalletAddress", "{e}")))
          /\ UNCHANGED loc
     ELSE LET address == unwrap(AddressFromStr(r.wallet_address))
          IN IF is_none(r.token_contract_address)
             THEN /\ pc' = "balance_eth"
                  /\ loc' = [loc EXCEPT !.address = address]
                  /\ UNCHANGED result
             ELSE IF is_none(AddressFromStr(unwrap(r.token_contract_address)))
             THEN /\ Finish(Err(ServiceError("InvalidWalletAddress", "{e}")))
                  /\ loc' = [loc EXCEPT !.address = address]
             ELSE /\ pc' = "balance_erc20"
                  /\ loc' = [loc EXCEPT !.address = address,
                               !.token_address = unwrap(AddressFromStr(unwrap(r.token_contract_address)))]
                  /\ UNCHANGED result
  /\ UNCHANGED <<ledger, service, sched, eval, quotes, calls>>

\* get_eth_balance(address).await?
balance_get_eth_balance(answer) ==
  /\ pc = "balance_eth"
  /\ calls' = Append(calls, Call("get_eth_balance", <<loc.address>>, <<>>, answer, <<answer.val>>))
  /\ IF ~answer.ok
     THEN Finish(Err(from_repository_error(answer.err)))
     ELSE Finish(Ok(GetBalanceResponse(answer.val, ETH_DECIMALS, "ETH")))
  /\ ledger' = ledger_after(ledger, "get_eth_balance")
  /\ UNCHANGED <<service, sched, eval, req, loc, quotes>>

\* get_erc20_balance(token_addr, address).await?
balance_get_erc20_balance(answer) ==
  /\ pc = "balance_erc20"
  /\ calls' = Append(calls, Call("get_erc20_balance", <<loc.token_address, loc.address>>, <<>>,
                                 answer, <<answer.val.balance>>))
  /\ IF ~answer.ok
     THEN Finish(Err(from_repository_error(answer.err)))
     ELSE Finish(Ok(GetBalanceResponse(answer.val.balance, answer.val.decimals, answer.val.symbol)))
  /\ ledger' = ledger_after(ledger, "get_erc20_balance")
  /\ UNCHANGED <<service, sched, eval, req, loc, quotes>>

\* ------------------------------------------------------------------------
\* get_token_price_impl and get_price_from_uniswap
\* ------------------------------------------------------------------------

\* ETH/USD prices get_eth_usd_price may report
EthUsdPrices == {Ratio(2000, 1, 0), Ratio(25, 1, 2)}

EthUsdAnswers == {RepoOk(q) : q \in EthUsdPrices} \cup RepoFailures("get_eth_usd_price")

\* The reserves of the pair (token_a, token_b) in that order: the ledger
\* holds them in the order (WETH, other token).
ReservesOf(token_a) ==
  IF is_none(ledger.reserves) THEN None
  ELSE IF token_a = WETH_ADDRESS THEN ledger.reserves
  ELSE Some(<<unwrap(ledger.reserves)[2], unwrap(ledger.reserves)[1]>>)

PriceReservesAnswers(token_a) ==
  (IF is_some(ReservesOf(token_a)) THEN {RepoOk(unwrap(ReservesOf(token_a)))} ELSE {})
    \cup RepoFailures("get_uniswap_pair_reserves")

\* Decimal `*` of two quotients
RatioMul(a, b) == Ratio(a.n * b.n, a.d * b.d, a.e + b.e)

\* The text "1.0" reported as the price of WETH in ETH
OnePointZero == [text |-> "1.0", n |-> 1, d |-> 1, e |-> 0]

\* chrono::Utc::now().timestamp()
Clock == {1762387200}

\* GetTokenPriceResponse
GetTokenPriceResponse(symbol, address, price_usd, price_eth, timestamp) ==
  [symbol |-> symbol, address |-> address, price_usd |-> price_usd,
   price_eth |-> price_eth, timestamp |-> timestamp]

\* Mutant of price_branch: WETH is priced from its pair like any other
\* token.
price_branch_always_uniswap(token_address, symbol) ==
  IF is_none(AddressFromStr(token_address))
  THEN /\ Finish(Err(ServiceError("InvalidWalletAddress", "{e}")))
       /\ loc' = [loc EXCEPT !.token_address = token_address, !.symbol = symbol]
  ELSE /\ pc' = "price_token_metadata"
       /\ loc' = [loc EXCEPT !.token_address = token_address, !.symbol = symbol]
       /\ UNCHANGED result

\* get_token_price_impl once token_address and symbol are known: the
\* address is parsed and compared with WETH's.
price_branch(token_address, symbol) ==
  IF is_none(AddressFromStr(token_address))
  THEN /\ Finish(Err(ServiceError("InvalidWalletAddress", "{e}")))
       /\ loc' = [loc EXCEPT !.token_address = token_address, !.symbol = symbol]
  ELSE /\ pc' = IF unwrap(AddressFromStr(token_address)) = WETH_ADDRESS
                THEN "price_eth_usd" ELSE "price_token_metadata"
       /\ loc' = [loc EXCEPT !.token_address = token_address, !.symbol = symbol]
       /\ UNCHANGED result

\* get_token_price_impl up to its first repository call
get_token_price_impl(r) ==
  /\ pc = "idle"
  /\ req' = Request("get_token_price", r)
  /\ LET variant == unwrap(r.price_request)[1]
         text == unwrap(r.price_request)[2]
     IN IF variant = "Symbol"
        THEN LET addr == lookup_token_address(text)
             IN IF addr.st # "ok"
                THEN /\ Finish(Err(addr.error))
                     /\ UNCHANGED loc
                ELSE price_branch(addr.val, text)
        ELSE IF is_none(AddressFromStr(text))
        THEN /\ Finish(Err(ServiceError("InvalidWalletAddress", "{e}")))
             /\ UNCHANGED loc
        ELSE /\ pc' = "price_metadata"
             /\ loc' = [loc EXCEPT !.token_address = text]
             /\ UNCHANGED result
  /\ UNCHANGED <<ledger, service, sched, eval, quotes, calls>>

\* ContractAddress: get_token_metadata(addr).await? gives the symbol.
price_get_metadata(answer) ==
  /\ pc = "price_metadata"
  /\ calls' = Append(calls, Call("get_token_metadata", <<loc.token_address>>, <<>>, answer,
                                 <<answer.val.decimals>>))
  /\ IF ~answer.ok
     THEN /\ Finish(Err(from_repository_error(answer.err)))
          /\ UNCHANGED loc
     ELSE price_branch(loc.token_address, answer.val.symbol)
  /\ ledger' = ledger_after(ledger, "get_token_metadata")
  /\ UNCHANGED <<service, sched, eval, req, quotes>>

\* WETH: get_eth_usd_price().await? and the response
price_get_eth_usd_price(answer, timestamp) ==
  /\ pc = "price_eth_usd"
  /\ calls' = Append(calls, Call("get_eth_usd_price", <<>>, <<>>, answer, <<answer.val>>))
  /\ IF ~answer.ok
     THEN Finish(Err(from_repository_error(answer.err)))
     ELSE Finish(Ok(GetTokenPriceResponse(loc.symbol, loc.token_address,
                                          DecText(answer.val), OnePointZero, timestamp)))
  /\ ledger' = ledger_after(ledger, "get_eth_usd_price")
  /\ UNCHANGED <<service, sched, eval, req, loc, quotes>>

\* get_price_from_uniswap: get_token_metadata(token).await?
price_get_token_metadata(answer) ==
  /\ pc = "price_token_metadata"
  /\ calls' = Append(calls, Call("get_token_metadata", <<loc.token_address>>, <<>>, answer,
                                 <<answer.val.decimals>>))
  /\ IF ~answer.ok
     THEN /\ Finish(Err(from_repository_error(answer.err)))
          /\ UNCHANGED loc
     ELSE /\ pc' = "price_reserves"
          /\ loc' = [loc EXCEPT !.token_metadata = answer.val]
          /\ UNCHANGED result
  /\ ledger' = ledger_after(ledger, "get_token_metadata")
  /\ UNCHANGED <<service, sched, eval, req, quotes>>

\* get_price_from_uniswap: get_uniswap_pair_reserves(token, weth).await?,
\* the zero-reserve check and calculate_price
price_get_reserves(answer) ==
  /\ pc = "price_reserves"
  /\ calls' = Append(calls, Call("get_uniswap_pair_reserves", <<loc.token_address, WETH_ADDRESS>>,
                                 <<>>, answer, answer.val))
  /\ IF ~answer.ok
     THEN /\ Finish(Err(from_repository_error(answer.err)))
          /\ UNCHANGED loc
     ELSE LET reserve_token == answer.val[1]
              reserve_weth == answer.val[2]
              price_eth == calculate_price(reserve_weth, reserve_token, WethDecimals,
                                           loc.token_metadata.decimals)
              fetched == [loc EXCEPT !.reserve_token = reserve_token,
                                     !.reserve_weth = reserve_weth]
          IN IF reserve_token = 0 \/ reserve_weth = 0
             THEN /\ Finish(Err(ServiceError("InsufficientLiquidity",
                                  "No liquidity in Uniswap pair for token {token} and WETH")))
                  /\ loc' = fetched
             ELSE IF price_eth.st # "ok"
             THEN /\ Finish(Err(ServiceError("InvalidAmount", "{e}")))
                  /\ loc' = fetched
             ELSE /\ pc' = "price_uniswap_eth_usd"
                  /\ loc' = [fetched EXCEPT !.price_eth = price_eth.val]
                  /\ UNCHANGED result
  /\ ledger' = ledger_after(ledger, "get_uniswap_pair_reserves")
  /\ UNCHANGED <<service, sched, eval, req, quotes>>

\* get_price_from_uniswap: get_eth_usd_price().await?, price_usd and the
\* response
price_uniswap_get_eth_usd_price(answer, timestamp) ==
  /\ pc = "price_uniswap_eth_usd"
  /\ calls' = Append(calls, Call("get_eth_usd_price", <<>>, <<>>, answer, <<answer.val>>))
  /\ IF ~answer.ok
     THEN Finish(Err(from_repository_error(answer.err)))
     ELSE Finish(Ok(GetTokenPriceResponse(loc.symbol, loc.token_address,
                                          DecText(RatioMul(loc.price_eth, answer.val)),
                                          DecText(loc.price_eth), timestamp)))
  /\ ledger' = ledger_after(ledger, "get_eth_usd_price")
  /\ UNCHANGED <<service, sched, eval, req, loc, quotes>>

\* ------------------------------------------------------------------------
\* The request has been answered; the service takes the next one.  Nothing
\* of the request survives it: the service keeps no per-request state.
\* ------------------------------------------------------------------------

next_request ==
  /\ pc = "done"
  /\ pc' = "idle"
  /\ req' = NoRequest
  /\ loc' = Locals0
  /\ quotes' = [f \in FeeSet |-> NotProbed]
  /\ calls' = <<>>
  /\ result' = NoResult
  /\ UNCHANGED <<ledger, service, sched, eval>>

Next ==
  \/ \E r \in GetBalanceRequest : get_balance_impl(r)
  \/ \E answer \in EthBalanceAnswers : balance_get_eth_balance(answer)
  \/ \E answer \in Erc20BalanceAnswers(loc.token_address) : balance_get_erc20_balance(answer)
  \/ \E r \in GetTokenPriceRequest : get_token_price_impl(r)
  \/ \E answer \in MetadataAnswers(loc.token_address) : price_get_metadata(answer)
  \/ \E answer \in EthUsdAnswers, timestamp \in Clock : price_get_eth_usd_price(answer, timestamp)
  \/ \E answer \in MetadataAnswers(loc.token_address) : price_get_token_metadata(answer)
  \/ \E answer \in PriceReservesAnswers(loc.token_address) : price_get_reserves(answer)
  \/ \E answer \in EthUsdAnswers, timestamp \in Clock : price_uniswap_get_eth_usd_price(answer, timestamp)
  \/ \E r \in SwapTokensRequest : swap_tokens_impl(r)
  \/ \E answer \in MetadataAnswers(loc.from_token) : v3_get_from_metadata(answer)
  \/ \E answer \in MetadataAnswers(loc.to_token) : v3_get_to_metadata(answer)
  \/ \E answer \in QuoteAnswers(fee_tiers[loc.fee_idx]) : v3_get_quote(answer)
  \/ \E answer \in SimulateAnswers("simulate_v3_swap") : v3_simulate_swap(answer)
  \/ \E answer \in GasPriceAnswers : v3_format_gas_cost(answer)
  \/ \E answer \in MetadataAnswers(loc.from_token) : v2_get_from_metadata(answer)
  \/ \E answer \in AmountsOutAnswers(loc.amount_in) : v2_get_swap_amounts_out(answer)
  \/ \E answer \in MetadataAnswers(loc.to_token) : v2_zero_get_to_metadata(answer)
  \/ \E answer \in ReservesAnswers : v2_zero_get_reserves(answer)
  \/ \E answer \in MetadataAnswers(loc.to_token) : v2_get_to_metadata(answer)
  \/ \E answer \in ReservesAnswers : v2_get_reserves(answer)
  \/ \E answer \in SimulateAnswers("simulate_swap") : v2_simulate_swap(answer)
  \/ \E answer \in GasPriceAnswers : v2_format_gas_cost(answer)
  \/ next_request

Spec == Init /\ [][Next]_vars

\* ------------------------------------------------------------------------
\* Concurrent invocations.  The handlers are `async fn (&self, ..)`: every
\* local of a handler lives in its own future, and the runtime may suspend
\* a handler at each `.await` and run another one.  The invocation in the
\* variables pc, req, loc, quotes, calls and result is the running one; the
\* suspended one is kept in sched.parked.  The ledger does not change, so
\* the repository gives one answer to one question: the answers that the
\* ledger's pool does not settle are fixed in sched.world.  Before the two
\* concurrent invocations start, one invocation runs alone and its result
\* is kept in sched.alone.
\* ------------------------------------------------------------------------

\* The fields of the handlers' state that live in the service and not in
\* the invocation: EthereumTradingService holds a router, the repository
\* and the registry, and no per-request field.
engine_state_fields_best_quote == {"best_quote"}
engine_state_fields == {}

\* The answers the ledger's pool does not settle: the output the V3 quoter
\* gives at the 0.3% tier and the output the V2 router gives.
Worlds == [quote_3000 : {0, 120}, router_out : {0, 5}]

WorldMetadata(token) == {RepoOk(TokenMetadata(token))}

\* 0.3% as the world has it, 0.05% quotes 90, the 1% pool does not exist
WorldQuote(fee) ==
  IF fee = 3000 THEN {RepoOk(<<sched.world.quote_3000, QuoteGas(fee)>>)}
  ELSE IF fee = 500 THEN {RepoOk(<<90, QuoteGas(fee)>>)}
  ELSE {RepoFail("ContractError", "get_v3_quote")}

WorldAmountsOut(amount_in) == {RepoOk(<<amount_in, sched.world.router_out>>)}

\* The pair does not exist: "Pair does not exist for these tokens"
WorldReserves(token_a) ==
  IF is_some(ReservesOf(token_a)) THEN {RepoOk(unwrap(ReservesOf(token_a)))}
  ELSE {RepoFail("ContractError", "get_uniswap_pair_reserves")}

WorldGasPrice == {RepoOk(30)}

WorldEthBalance == {RepoOk(1500)}

WorldEthUsd == {RepoOk(Ratio(2000, 1, 0))}

\* The requests sent concurrently: a swap through each version, a balance
\* and a price.
ConcurrentSwaps ==
  [from_token : {"weth"}, to_token : {"0x6b17"},
   amount : {"1.5"}, slippage_tolerance : {"0.5"},
   uniswap_version : {Some("v2"), Some("v3")},
   from_address : {None}]

ConcurrentBalances == [wallet_address : {"0xd8da"}, token_contract_address : {None}]

ConcurrentPrices == {[price_request |-> Some(<<"Symbol", "DAI">>)]}

ConcurrentInit ==
  /\ ledger \in [reserves : PoolStates, broadcasts : {0}]
  /\ service \in [repository : [wallet : WalletKeys], token_registry : {registry}]
  /\ pc = "idle"
  /\ req = NoRequest
  /\ loc = Locals0
  /\ quotes = [f \in FeeSet |-> NotProbed]
  /\ calls = <<>>
  /\ result = NoResult
  /\ sched \in [phase : {"alone"}, parked : {IdleContext}, world : Worlds,
                alone : {[req |-> NoRequest, result |-> NoResult]},
                constructed : {service}]
  /\ eval = NoEval

\* The invocation that ran alone has returned: its request and its result
\* are kept, and the two concurrent invocations may start.
finish_alone ==
  /\ sched.phase = "alone"
  /\ pc = "done"
  /\ sched' = [sched EXCEPT !.phase = "concurrent",
                            !.alone = [req |-> req, result |-> result]]
  /\ pc' = "idle"
  /\ req' = NoRequest
  /\ loc' = Locals0
  /\ quotes' = [f \in FeeSet |-> NotProbed]
  /\ calls' = <<>>
  /\ result' = NoResult
  /\ UNCHANGED <<ledger, service, eval>>

\* The runtime suspends the running invocation where it is and resumes the
\* other one.  What a handler keeps in its own future goes with it; a
\* field of the engine's state stays where it is.
yield ==
  /\ sched.phase = "concurrent"
  /\ sched' = [sched EXCEPT !.parked = Context(pc, req, loc, quotes, calls, result)]
  /\ pc' = sched.parked.pc
  /\ req' = sched.parked.req
  /\ loc' = [f \in DOMAIN loc |->
              IF f \in engine_state_fields THEN loc[f] ELSE sched.parked.loc[f]]
  /\ quotes' = sched.parked.quotes
  /\ calls' = sched.parked.calls
  /\ result' = sched.parked.result
  /\ UNCHANGED <<ledger, service, eval>>

ConcurrentNext ==
  \/ \E r \in ConcurrentBalances : get_balance_impl(r)
  \/ \E answer \in WorldEthBalance : balance_get_eth_balance(answer)
  \/ \E r \in ConcurrentPrices : get_token_price_impl(r)
  \/ \E answer \in WorldMetadata(loc.token_address) : price_get_token_metadata(answer)
  \/ \E answer \in WorldReserves(loc.token_address) : price_get_reserves(answer)
  \/ \E answer \in WorldEthUsd, timestamp \in Clock : price_uniswap_get_eth_usd_price(answer, timestamp)
  \/ \E r \in ConcurrentSwaps : swap_tokens_impl(r)
  \/ \E answer \in WorldMetadata(loc.from_token) : v3_get_from_metadata(answer)
  \/ \E answer \in WorldMetadata(loc.to_token) : v3_get_to_metadata(answer)
  \/ \E answer \in WorldQuote(fee_tiers[loc.fee_idx]) : v3_get_quote(answer)
  \/ \E answer \in WorldGasPrice : v3_format_gas_cost(answer)
  \/ \E answer \in WorldMetadata(loc.from_token) : v2_get_from_metadata(answer)
  \/ \E answer \in WorldAmountsOut(loc.amount_in) : v2_get_swap_amounts_out(answer)
  \/ \E answer \in WorldMetadata(loc.to_token) : v2_zero_get_to_metadata(answer)
  \/ \E answer \in WorldReserves(WETH_ADDRESS) : v2_zero_get_reserves(answer)
  \/ \E answer \in WorldMetadata(loc.to_token) : v2_get_to_metadata(answer)
  \/ \E answer \in WorldReserves(WETH_ADDRESS) : v2_get_reserves(answer)
  \/ \E answer \in WorldGasPrice : v2_format_gas_cost(answer)
  \/ finish_alone
  \/ yield

SpecConcurrent == ConcurrentInit /\ [][ConcurrentNext]_vars

\* ------------------------------------------------------------------------
\* The functions of service/utils.rs on their own: a raw amount and a
\* decimal-places count are drawn, and one function is applied to them and
\* to the other arguments it takes.
\* ------------------------------------------------------------------------

\* Raw amounts: small ones, the largest a Decimal holds and the next one,
\* larger ones up to U256::MAX
RawAmounts ==
  {0, 1, 5, 200, 995, 1000, 1500, 10050, 19000, DecMaxMantissa, DecMaxMantissa + 1,
   123456, 792280, U256Max}

DecimalPlaces == 0..3

\* Amount texts handed to parse_amount: the request texts, "100" and
\* "100.5", and the digits of the raw amount
AmountInputs(value) ==
  {Chars(t) : t \in AmountTexts \cup {"100", "100.5"}} \cup {Txt("", value, <<>>)}

\* Slippage percentages in [0, 100)
SlippageInputs == {Dec(0, 0), Dec(5, 1), Dec(50, 0), Dec(995, 1)}

\* Reserves and output amounts handed to the price functions
ReserveInputs == {0, 1, 1000, 2000, 60000}

OutputInputs == {0, 5, 5000, DecMaxMantissa + 1}

UtilsInit ==
  /\ ledger = [reserves |-> None, broadcasts |-> 0]
  /\ service = [repository |-> [wallet |-> None], token_registry |-> registry]
  /\ pc = "idle"
  /\ req = NoRequest
  /\ loc = Locals0
  /\ quotes = [f \in FeeSet |-> NotProbed]
  /\ calls = <<>>
  /\ result = NoResult
  /\ sched = Sequential(service)
  /\ eval \in [fn : {""}, value : RawAmounts, decimals : DecimalPlaces,
               args : {<<>>}, out : {<<>>}]

\* fn is applied to the drawn inputs and to args, and returns out.
Returns(fn, args, out) ==
  /\ eval' = [eval EXCEPT !.fn = fn, !.args = args, !.out = out]
  /\ UNCHANGED <<ledger, service, pc, req, loc, quotes, calls, result, sched>>

eval_format_balance ==
  /\ eval.fn = ""
  /\ Returns("format_balance", <<>>, format_balance(eval.value, eval.decimals))

\* parse_amount on the text format_balance returned, at the same decimals
eval_parse_formatted ==
  /\ eval.fn = "format_balance"
  /\ Returns("parse_formatted", <<eval.out>>, parse_amount(eval.out, eval.decimals))

eval_parse_amount(amount) ==
  /\ eval.fn = ""
  /\ Returns("parse_amount", <<amount>>, parse_amount(amount, eval.decimals))

eval_calculate_minimum_output(slippage) ==
  /\ eval.fn = ""
  /\ Returns("calculate_minimum_output", <<slippage>>,
             calculate_minimum_output(eval.value, slippage))

eval_calculate_price(denominator, denominator_decimals) ==
  /\ eval.fn = ""
  /\ Returns("calculate_price", <<denominator, denominator_decimals>>,
             calculate_price(eval.value, denominator, eval.decimals, denominator_decimals))

eval_calculate_price_impact(amount_out, reserve_in, reserve_out) ==
  /\ eval.fn = ""
  /\ Returns("calculate_price_impact", <<amount_out, reserve_in, reserve_out>>,
             calculate_price_impact(eval.value, amount_out, reserve_in, reserve_out))

eval_calculate_exchange_rate(amount_out, decimals_out) ==
  /\ eval.fn = ""
  /\ Returns("calculate_exchange_rate", <<amount_out, decimals_out>>,
             calculate_exchange_rate(eval.value, amount_out, eval.decimals, decimals_out))

eval_lookup(symbol) ==
  /\ eval.fn = ""
  /\ Returns("lookup", <<symbol>>, lookup(symbol))

eval_contains(symbol) ==
  /\ eval.fn = ""
  /\ Returns("contains", <<symbol>>, contains(symbol))

eval_supported_tokens(keys) ==
  /\ eval.fn = ""
  /\ Returns("supported_tokens", <<keys>>, supported_tokens(keys))

\* Counts of decimals handed to u256_to_decimal: those of the tokens of the
\* model and two above them, a u8 being free to hold up to 255
ScaleInputs == 0..(WethDecimals + 3)

eval_u256_to_decimal(decimals, out) ==
  /\ eval.fn = ""
  /\ Returns("u256_to_decimal", <<decimals>>, out)

UtilsNext ==
  \/ \E decimals \in ScaleInputs :
       \E out \in u256_to_decimal_outcomes(eval.value, decimals) : eval_u256_to_decimal(decimals, out)
  \/ \E symbol \in SymbolInputs : eval_lookup(symbol)
  \/ \E symbol \in SymbolInputs : eval_contains(symbol)
  \/ \E keys \in KeyOrders : eval_supported_tokens(keys)
  \/ eval_format_balance
  \/ eval_parse_formatted
  \/ \E amount \in AmountInputs(eval.value) : eval_parse_amount(amount)
  \/ \E slippage \in SlippageInputs : eval_calculate_minimum_output(slippage)
  \/ \E denominator \in ReserveInputs \cup {DecMaxMantissa + 1}, denominator_decimals \in DecimalPlaces :
       eval_calculate_price(denominator, denominator_decimals)
  \/ \E amount_out \in OutputInputs, reserve_in \in ReserveInputs, reserve_out \in ReserveInputs :
       eval_calculate_price_impact(amount_out, reserve_in, reserve_out)
  \/ \E amount_out \in OutputInputs, decimals_out \in DecimalPlaces :
       eval_calculate_exchange_rate(amount_out, decimals_out)

SpecUtils == UtilsInit /\ [][UtilsNext]_vars

\* ========================================================================
\* Properties
\* ========================================================================

\* Every tier of the request in flight has been asked and has answered.
AllProbed == \A f \in FeeSet : quotes[f].st # "none"

\* Tier f answered with a non-zero quote.
NonZeroQuote(f) == quotes[f].st = "ok" /\ quotes[f].amount_out # 0

\* The fee tiers of the get_v3_quote calls made so far, in call order
RECURSIVE QuotedFees(_)
QuotedFees(cs) ==
  IF cs = <<>> THEN <<>>
  ELSE IF cs[1].op = "get_v3_quote" THEN <<cs[1].nums[2]>> \o QuotedFees(Tail(cs))
  ELSE QuotedFees(Tail(cs))

\* A V3 swap whose probing is over and which has selected a quote: it is
\* waiting on the gas calls or has returned after them.
V3Selected ==
  /\ loc.version = "v3"
  /\ AllProbed
  /\ loc.selected_fee # 0

V3Success == loc.version = "v3" /\ result.kind = "ok"

\* Position of fee f in the order `order`
PositionIn(order, f) == CHOOSE i \in 1..Len(order) : order[i] = f

\* C1: in a V3 swap the selected and the reported output is the maximum
\* amountOut among the tiers that answered a non-zero quote, and the
\* selected and reported fee tier is a tier that answered that maximum.
C1_BestQuoteIsMaximum ==
  /\ V3Selected =>
       /\ NonZeroQuote(loc.selected_fee)
       /\ quotes[loc.selected_fee].amount_out = loc.amount_out
       /\ \A f \in FeeSet : NonZeroQuote(f) => quotes[f].amount_out <= loc.amount_out
  /\ V3Success =>
       /\ V3Selected
       /\ result.resp.estimated_output_raw = loc.amount_out
       /\ result.resp.transaction_data.fee = loc.selected_fee

\* C1 witness: {500: 90, 3000: 120, 10000: fails} reports tier 3000, 120.
C1_Witness ==
  /\ V3Success
  /\ quotes[500].st = "ok" /\ quotes[500].amount_out = 90
  /\ quotes[3000].st = "ok" /\ quotes[3000].amount_out = 120
  /\ quotes[10000].st = "err"
  /\ result.resp.transaction_data.fee = 3000
  /\ result.resp.estimated_output_raw = 120

\* The fee among the tiers with the highest non-zero quote that comes
\* first in `order`
FirstBestIn(order) ==
  LET best == {f \in FeeSet : /\ NonZeroQuote(f)
                              /\ \A g \in FeeSet : NonZeroQuote(g) =>
                                   quotes[g].amount_out <= quotes[f].amount_out}
  IN CHOOSE f \in best : \A g \in best : PositionIn(order, f) <= PositionIn(order, g)

IsPrefix(p, q) == Len(p) <= Len(q) /\ p = SubSeq(q, 1, Len(p))

\* C2 as stated: the tiers are probed in the order 500, 3000, 10000 and on
\* a tie for the highest output the first tier of that order is selected.
C2_ProbedInAscendingFeeOrder ==
  /\ IsPrefix(QuotedFees(calls), <<500, 3000, 10000>>)
  /\ V3Selected => loc.selected_fee = FirstBestIn(<<500, 3000, 10000>>)

\* C2 as amended: the tiers are probed in the order 3000, 500, 10000 and on
\* a tie for the highest output the first tier of that order is selected
\* and reported.
C2_ProbedMostCommonTierFirst ==
  /\ IsPrefix(QuotedFees(calls), <<3000, 500, 10000>>)
  /\ V3Selected => loc.selected_fee = FirstBestIn(<<3000, 500, 10000>>)
  /\ V3Success => result.resp.transaction_data.fee = FirstBestIn(<<3000, 500, 10000>>)

\* C2 witness: tiers 500 and 3000 tie for the highest output; 3000 is
\* reported.
C2_Witness ==
  /\ V3Success
  /\ quotes[500].st = "ok" /\ quotes[500].amount_out = 120
  /\ quotes[3000].st = "ok" /\ quotes[3000].amount_out = 120
  /\ quotes[10000].st = "ok" /\ quotes[10000].amount_out = 90
  /\ result.resp.transaction_data.fee = 3000

\* Number of get_v3_quote calls made for fee tier f
QuoteCalls(f) == Cardinality({i \in 1..Len(calls) : calls[i].op = "get_v3_quote" /\ calls[i].nums[2] = f})

\* C3: a V3 swap never asks a tier twice; once it has left the probing
\* loop it has asked each of the three tiers exactly once, whatever the
\* earlier tiers answered; and a quote is selected, or a result returned
\* after probing began, only when all three tiers have answered.
C3_EveryTierProbedOnce ==
  /\ \A f \in FeeSet : QuoteCalls(f) <= 1
  /\ \A f \in FeeSet : QuoteCalls(f) = 1 <=> quotes[f].st # "none"
  /\ (QuotedFees(calls) # <<>> /\ pc # "v3_quote") =>
       /\ \A f \in FeeSet : QuoteCalls(f) = 1
       /\ AllProbed
  /\ (loc.selected_fee # 0 \/ loc.amount_out # 0) /\ loc.version = "v3" => AllProbed
  /\ pc = "v3_quote" => result.kind = "none" /\ loc.selected_fee = 0

\* C3 witness: the first tier answered a usable quote, a later one failed,
\* and all three were asked before the quote was selected.
C3_Witness ==
  /\ pc = "v3_gas_price"
  /\ NonZeroQuote(3000)
  /\ quotes[500].st = "err"
  /\ quotes[10000].st = "ok"
  /\ Len(QuotedFees(calls)) = 3

\* C4: when at least one tier answered a non-zero quote, a tier's error is
\* swallowed: the best non-zero quote is selected all the same, the swap
\* does not end in the failed quote's error nor in "no pool found", and no
\* result is returned while tiers remain to be asked.
C4_TierErrorsSwallowed ==
  /\ (loc.version = "v3" /\ \E g \in FeeSet : quotes[g].st = "err") =>
       /\ ~AllProbed => pc = "v3_quote" /\ result.kind = "none"
       /\ (result.kind = "err" /\ result.error.src # <<>>) => result.error.src[1] # "get_v3_quote"
  /\ (loc.version = "v3" /\ AllProbed /\ \E f \in FeeSet : NonZeroQuote(f)) =>
       /\ V3Selected
       /\ NonZeroQuote(loc.selected_fee)
       /\ result.kind = "err" => result.error.type # "SwapSimulationFailed"

\* C4 witness: a success result although two tiers failed.
C4_Witness ==
  /\ V3Success
  /\ quotes[3000].st = "err"
  /\ quotes[500].st = "ok" /\ quotes[500].amount_out = 90
  /\ quotes[10000].st = "err"
  /\ result.resp.transaction_data.fee = 500

\* C5: when every tier failed or answered a zero amountOut the V3 swap
\* ends with SwapSimulationFailed, and no V3 success result carries a zero
\* output.
C5_NoUsableQuoteFails ==
  /\ (loc.version = "v3" /\ AllProbed /\ \A f \in FeeSet : ~NonZeroQuote(f)) =>
       /\ pc = "done"
       /\ result.kind = "err"
       /\ result.error.type = "SwapSimulationFailed"
  /\ V3Success => result.resp.estimated_output_raw # 0
  /\ loc.version = "v3" /\ is_some(loc.best_quote) => unwrap(loc.best_quote)[1] # 0

\* C5 witness: one tier failed, two answered zero, the swap failed.
C5_Witness ==
  /\ loc.version = "v3"
  /\ quotes[3000].st = "ok" /\ quotes[3000].amount_out = 0
  /\ quotes[500].st = "err"
  /\ quotes[10000].st = "ok" /\ quotes[10000].amount_out = 0
  /\ result.kind = "err"
  /\ result.error.type = "SwapSimulationFailed"

\* The slippage percentage of the request in flight lies outside [0, 100).
SlippageOutOfRange ==
  /\ is_some(DecimalFromStr(Chars(req.slippage_tolerance)))
  /\ LET slippage == unwrap(DecimalFromStr(Chars(req.slippage_tolerance)))
     IN slippage.m < 0 \/ slippage.m >= 100 * Pow10(slippage.s)

\* A swap returned a success result.
SwapSuccess == req.tool = "swap_tokens" /\ result.kind = "ok"

\* The handler in flight has computed a minimum output and gone on with it.
MinimumOutputComputed ==
  \/ pc \in {"v2_to_metadata", "v2_reserves", "v2_simulate", "v2_gas_price",
             "v3_simulate", "v3_gas_price"}
  \/ SwapSuccess

\* C6: every successful swap result, V2 or V3, has minimumOutput <=
\* estimated output, compared as raw amounts.
C6_MinimumOutputAtMostOutput ==
  SwapSuccess => loc.minimum_output <= result.resp.estimated_output_raw

\* C7: a swap whose slippage percentage is outside [0, 100) never goes on
\* with a computed minimum output and never succeeds; once the slippage
\* has been parsed it ends with InvalidAmount.
C7_SlippageOutOfRangeRejected ==
  SlippageOutOfRange =>
    /\ ~MinimumOutputComputed
    /\ (result.kind = "err" /\ loc.amount_out # 0) => result.error.type = "InvalidAmount"

\* A side of the requested pair's reserves is zero.
ZeroSideReserves ==
  /\ is_some(ledger.reserves)
  /\ unwrap(ledger.reserves)[1] = 0 \/ unwrap(ledger.reserves)[2] = 0

\* The reserves fetch of the request in flight answered Ok.
ReservesFetched ==
  \E i \in 1..Len(calls) : calls[i].op = "get_uniswap_pair_reserves" /\ calls[i].ok

\* C8: a V2 swap simulation (at a slippage inside [0, 100)) on a pair with
\* a zero reserve never returns a success result, and once it has fetched
\* the reserves it ends with LiquidityPoolNotFound or
\* InsufficientLiquidity.
C8_ZeroReservesRejected ==
  (loc.version = "v2" /\ ZeroSideReserves /\ ~SlippageOutOfRange) =>
    /\ result.kind # "ok"
    /\ (pc = "done" /\ ReservesFetched) =>
         /\ result.kind = "err"
         /\ result.error.type \in {"LiquidityPoolNotFound", "InsufficientLiquidity"}

\* The router answered the request in flight with a final amount of zero.
ZeroOutputSeen ==
  \E i \in 1..Len(calls) :
    /\ calls[i].op = "get_swap_amounts_out"
    /\ calls[i].ok
    /\ calls[i].ret # <<>>
    /\ calls[i].ret[Len(calls[i].ret)] = 0

\* C9: once the V2 router has answered a final output of zero, the swap
\* only fetches the to-token metadata and the reserves, never simulates
\* nor asks the gas price, and ends with SwapSimulationFailed whatever
\* those two fetches answer.
C9_ZeroOutputFails ==
  ZeroOutputSeen =>
    /\ pc \in {"v2_zero_to_metadata", "v2_zero_reserves", "done"}
    /\ result.kind # "ok"
    /\ pc = "done" => result.kind = "err" /\ result.error.type = "SwapSimulationFailed"
    /\ pc # "done" => result.kind = "none"
    /\ \A i \in 1..Len(calls) : calls[i].op \notin {"simulate_swap", "get_gas_price"}

\* C9 witness: zero output, the metadata fetch failed, the reserves fetch
\* answered, the swap ended with SwapSimulationFailed.
C9_Witness ==
  /\ ZeroOutputSeen
  /\ pc = "done"
  /\ loc.to_symbol = "Unknown"
  /\ ReservesFetched
  /\ result.kind = "err"
  /\ result.error.type = "SwapSimulationFailed"

\* The V2 swap in flight has ended on its zero-output path.
ZeroOutputDone == ZeroOutputSeen /\ pc = "done" /\ result.kind = "err"

V2Waits == {"v2_from_metadata", "v2_amounts_out", "v2_zero_to_metadata", "v2_zero_reserves",
            "v2_to_metadata", "v2_reserves", "v2_simulate", "v2_gas_price"}

V3Waits == {"v3_from_metadata", "v3_to_metadata", "v3_quote", "v3_simulate", "v3_gas_price"}

\* The request in flight ended with the "Invalid Uniswap version" error
\* before any repository operation was called.
VersionRejected ==
  /\ pc = "done"
  /\ result.kind = "err"
  /\ result.error.type = "InvalidAmount"
  /\ result.error.msg = "Invalid Uniswap version: {}. Must be 'v2' or 'v3'"
  /\ calls = <<>>

\* The request in flight runs, or ran, the branch `version` ("v2" or "v3").
BranchRun(version) ==
  /\ loc.version = version
  /\ pc \in (IF version = "v2" THEN V2Waits ELSE V3Waits) \cup {"done"}
  /\ ~VersionRejected
  /\ result.kind = "ok" => result.resp.transaction_data.version = to_uppercase(version)
  /\ \A i \in 1..Len(calls) :
       calls[i].op \notin (IF version = "v2" THEN {"get_v3_quote", "simulate_v3_swap"}
                           ELSE {"get_swap_amounts_out", "simulate_swap", "get_uniswap_pair_reserves"})

MappedType(kind) ==
  CASE kind \in {"RpcError", "NetworkError", "ContractError"} -> "BlockchainError"
    [] kind = "ParseError" -> "InvalidWalletAddress"
    [] OTHER -> "InternalError"

\* Call i was made on the V2 zero-output path (after the router answered a
\* final amount of zero).
OnZeroOutputPath(i) ==
  \E j \in 1..(i - 1) :
    /\ calls[j].op = "get_swap_amounts_out"
    /\ calls[j].ok
    /\ calls[j].ret # <<>>
    /\ calls[j].ret[Len(calls[j].ret)] = 0

\* The failure of call i ended the swap with the service error mapped from
\* it, and no further call was made.
Propagated(i) ==
  /\ i = Len(calls)
  /\ pc = "done"
  /\ result.kind = "err"
  /\ result.error.src # <<>>
  /\ result.error.src[1] = calls[i].op
  /\ result.error.type = MappedType(result.error.src[2])

\* The failure of call i did not end the swap: the handler went on, and
\* whatever it returned is not the error mapped from that failure.
Swallowed(i) ==
  /\ i = Len(calls) => pc # "done" \/ result.kind # "err" \/ result.error.src = <<>>
  /\ (result.kind = "err" /\ result.error.src # <<>>) => result.error.src[1] # calls[i].op

\* No call is made again, with the same arguments, after it failed.
NoRetry ==
  \A i, j \in 1..Len(calls) :
    (i < j /\ ~calls[i].ok) =>
      ~(calls[j].op = calls[i].op /\ calls[j].tokens = calls[i].tokens /\ calls[j].nums = calls[i].nums)

MinimumOutputFailed ==
  \/ is_none(DecimalFromU256(loc.amount_out))
  \/ /\ ~DecMulOverflows(unwrap(DecimalFromU256(loc.amount_out)), DecSub(Dec(100, 0), loc.slippage))
     /\ LET product == DecMul(unwrap(DecimalFromU256(loc.amount_out)), DecSub(Dec(100, 0), loc.slippage))
        IN is_none(IntegerPartToU256(Dec(product.m, product.s + 2)))

\* The price computation inside calculate_exchange_rate failed.
ExchangeRateFailed ==
  /\ loc.amount_in > 0
  /\ calculate_price(loc.amount_out, loc.amount_in,
                     loc.to_metadata.decimals, loc.from_metadata.decimals).st # "ok"

\* A price computation inside calculate_price_impact failed (V2 only).
PriceImpactFailed ==
  /\ loc.version = "v2"
  /\ loc.reserve_in # 0 /\ loc.reserve_out # 0 /\ loc.amount_in # 0
  /\ \/ calculate_price(loc.reserve_out, loc.reserve_in, WethDecimals, WethDecimals).st # "ok"
     \/ calculate_price(saturating_sub(loc.reserve_out, loc.amount_out),
                        wrapping_add(loc.reserve_in, loc.amount_in), WethDecimals, WethDecimals).st # "ok"

\* C13: a swap (at a slippage inside [0, 100)) in which a decimal
\* conversion or a price computation failed never returns a success result
\* (which would carry minimum output 0, exchange rate "0" or price impact
\* "0" in place of the failed value).
C13_NoSilentDefault ==
  (SwapSuccess /\ ~SlippageOutOfRange) =>
    /\ ~MinimumOutputFailed
    /\ ~ExchangeRateFailed
    /\ ~PriceImpactFailed

\* ------------------------------------------------------------------------
\* The ledger is only read
\* ------------------------------------------------------------------------

\* The JSON-RPC methods that read the chain or execute a call locally
\* without broadcasting it.
ReadOnlyRpc == {"eth_call", "eth_estimateGas", "eth_getBalance", "eth_gasPrice"}

\* C14: no step of a balance, price or swap operation changes the ledger
\* (pool reserves, transactions broadcast), and every repository call made
\* issues only reads, local call simulations and gas estimations, whether
\* or not the repository holds a wallet.
C14_LedgerOnlyRead ==
  [][/\ ledger' = ledger
     /\ \A i \in 1..Len(calls') : calls'[i].rpc \subseteq ReadOnlyRpc]_vars

\* C14 witness: a service whose repository holds a wallet has simulated a
\* swap on behalf of a from_address and returned a success; nothing was
\* broadcast.
C14_Witness ==
  /\ is_some(service.repository.wallet)
  /\ SwapSuccess
  /\ \E i \in 1..Len(calls) :
       calls[i].op \in {"simulate_swap", "simulate_v3_swap"} /\ calls[i].ok
  /\ ledger.broadcasts = 0

\* ------------------------------------------------------------------------
\* C15: of two invocations interleaved at their awaits against an unchanging
\* ledger, each one that has returned has the result the same request got
\* when it ran alone; and the service is as it was constructed.
\* ------------------------------------------------------------------------
ReturnedAsAlone(ctx) ==
  (ctx.pc = "done" /\ ctx.req = sched.alone.req) => ctx.result = sched.alone.result

C16_RoundTrip ==
  eval.fn = "parse_formatted" => eval.out = Val(eval.value)

\* The round trip holds for the raw amounts a Decimal holds.
RoundTripWithinDecimal ==
  (eval.fn = "parse_formatted" /\ eval.value <= DecMaxMantissa) => eval.out = Val(eval.value)

\* A raw amount above the Decimal range came back as something else.
RoundTripLost ==
  /\ eval.fn = "parse_formatted"
  /\ eval.value > DecMaxMantissa
  /\ eval.out # Val(eval.value)

\* ------------------------------------------------------------------------
\* C17: a text that parses as a decimal is scaled by 10^decimals and
\* truncated toward zero; only a text that does not parse as a decimal is
\* read as a raw integer.
\* ------------------------------------------------------------------------

\* The first n digits after the point, as a number of n digits
RECURSIVE FractionPrefix(_, _)
FractionPrefix(frac, n) ==
  IF n = 0 THEN 0
  ELSE IF frac = <<>> THEN 0
  ELSE frac[1] * Pow10(n - 1) + FractionPrefix(Tail(frac), n - 1)

\* The number the text writes, times 10^decimals, without its fraction
Scaled(text, decimals) == text.whole * Pow10(decimals) + FractionPrefix(text.frac, decimals)

C17_DecimalTextScaled ==
  eval.fn = "parse_amount" =>
    LET text == eval.args[1]
    IN IF is_some(DecimalFromStr(text))
       THEN text.sign = "" => eval.out = Val(Scaled(text, eval.decimals))
       ELSE eval.out = IF is_some(U256FromStr(text)) THEN Val(unwrap(U256FromStr(text))) ELSE Fail

\* The decimal reading comes first and is scaled and truncated, as long as
\* the scaled amount is one a Decimal holds.
DecimalTextScaledWithinDecimal ==
  eval.fn = "parse_amount" =>
    LET text == eval.args[1]
    IN IF is_some(DecimalFromStr(text))
       THEN (text.sign = "" /\ Scaled(text, eval.decimals) <= DecMaxMantissa)
              => eval.out = Val(Scaled(text, eval.decimals))
       ELSE eval.out = IF is_some(U256FromStr(text)) THEN Val(unwrap(U256FromStr(text))) ELSE Fail

\* "100.5" at two decimals gives 10050, and "100" at two decimals 10000.
ParseExamples ==
  (eval.fn = "parse_amount" /\ eval.decimals = 2) =>
    /\ eval.args[1] = Chars("100.5") => eval.out = Val(10050)
    /\ eval.args[1] = Chars("100") => eval.out = Val(10000)

\* ------------------------------------------------------------------------
\* C18: calculate_minimum_output(amount_out, slippage) is
\* floor(amount_out * (100 - slippage) / 100) for every raw amount and every
\* slippage in [0, 100).
\* ------------------------------------------------------------------------

\* floor(amount_out * (100 - slippage) / 100), in integers
MinimumOutputFloor(amount_out, slippage) ==
  (amount_out * (100 * Pow10(slippage.s) - slippage.m)) \div (100 * Pow10(slippage.s))

C18_MinimumOutputExactFloor ==
  eval.fn = "calculate_minimum_output" =>
    eval.out = Val(MinimumOutputFloor(eval.value, eval.args[1]))

\* The floor is exact while amount_out * (100 - slippage) is a number a
\* Decimal holds: 200 at 0.5% gives 199.
MinimumOutputExactWithinDecimal ==
  eval.fn = "calculate_minimum_output" =>
    /\ eval.value * 100 <= DecMaxMantissa
         => eval.out = Val(MinimumOutputFloor(eval.value, eval.args[1]))
    /\ (eval.value = 200 /\ eval.args[1] = Dec(5, 1)) => eval.out = Val(199)

\* ------------------------------------------------------------------------
\* C19: calculate_price fails when either reserve, the numerator as well as
\* the denominator, is zero, and otherwise returns
\* toDecimal(numerator) / toDecimal(denominator).
\* ------------------------------------------------------------------------
C19_PriceFailsOnEitherZero ==
  eval.fn = "calculate_price" =>
    IF eval.value = 0 \/ eval.args[1] = 0 THEN eval.out = Fail
    ELSE eval.out = Val(Ratio(eval.value, eval.args[1], eval.args[2] - eval.decimals))

\* A zero denominator fails; a zero numerator over a denominator that is
\* not zero is the price zero.
PriceOfZeroNumerator ==
  eval.fn = "calculate_price" =>
    /\ eval.args[1] = 0 => eval.out = Fail
    /\ (eval.value = 0 /\ eval.args[1] \in 1..DecMaxMantissa) => eval.out = Val(Ratio(0, 1, 0))

\* ------------------------------------------------------------------------
\* C20: calculate_price_impact returns "0" when amount_in, reserve_in or
\* reserve_out is zero, calculate_exchange_rate returns "0" when amount_in is
\* zero, and for all other inputs the price impact is a percentage that is
\* not negative.
\* ------------------------------------------------------------------------
NonNegativePercentage(text) ==
  /\ text.text \in {"0", "decimal"}
  /\ text.n >= 0
  /\ text.d > 0

C20_ImpactZeroOrNonNegative ==
  /\ eval.fn = "calculate_price_impact" =>
       IF eval.value = 0 \/ eval.args[2] = 0 \/ eval.args[3] = 0
       THEN eval.out = ZeroText
       ELSE NonNegativePercentage(eval.out)
  /\ (eval.fn = "calculate_exchange_rate" /\ eval.value = 0) => eval.out = ZeroText

\* A zero input gives "0" from both functions, and the price impact is
\* never negative when it is returned.
ZeroInputsGiveZero ==
  /\ eval.fn = "calculate_price_impact" =>
       /\ (eval.value = 0 \/ eval.args[2] = 0 \/ eval.args[3] = 0) => eval.out = ZeroText
       /\ eval.out # PanicText => NonNegativePercentage(eval.out)
  /\ (eval.fn = "calculate_exchange_rate" /\ eval.value = 0) => eval.out = ZeroText

\* A price impact above zero came from a reserve_in + amount_in that
\* wrapped around, so that the price after the swap is above the price
\* before it.
ImpactAfterWrap ==
  /\ eval.fn = "calculate_price_impact"
  /\ eval.value + eval.args[2] > U256Max
  /\ eval.out.text = "decimal"
  /\ eval.out.n > 0

\* ------------------------------------------------------------------------
\* C21: a price lookup of WETH, by the symbol ETH or WETH or by the WETH
\* contract address, never fetches pair reserves, and when it succeeds the
\* price in ETH is "1.0" and the price in USD is what get_eth_usd_price
\* answered.
\* ------------------------------------------------------------------------

\* The price request in flight names WETH.
PriceOfWethRequested ==
  /\ req.tool = "get_token_price"
  /\ LET variant == unwrap(req.price_request)[1]
         text == unwrap(req.price_request)[2]
     IN IF variant = "Symbol" THEN to_uppercase(text) \in {"ETH", "WETH"}
        ELSE text = WETH_ADDRESS

\* C21: WETH is priced at "1.0" ETH and at the answered ETH price in USD,
\* with no fetch of pair reserves.
C21_WethPricedDirectly ==
  PriceOfWethRequested =>
    /\ \A i \in 1..Len(calls) : calls[i].op # "get_uniswap_pair_reserves"
    /\ result.kind = "ok" =>
         /\ result.resp.price_eth = OnePointZero
         /\ calls # <<>>
         /\ calls[Len(calls)].op = "get_eth_usd_price"
         /\ calls[Len(calls)].ok
         /\ result.resp.price_usd = DecText(calls[Len(calls)].ret[1])

\* C21 witness: the price of "ETH" was asked for and answered with the one
\* call of get_eth_usd_price.
C21_Witness ==
  /\ req.tool = "get_token_price"
  /\ req.price_request = Some(<<"Symbol", "ETH">>)
  /\ result.kind = "ok"
  /\ result.resp.price_eth = OnePointZero
  /\ result.resp.address = WETH_ADDRESS
  /\ Len(calls) = 1
  /\ calls[1].op = "get_eth_usd_price"

\* ------------------------------------------------------------------------
\* C22: a price lookup of another token fails with InsufficientLiquidity
\* when a reserve of its pair with WETH is zero, before any price is
\* computed; otherwise the price in ETH is the quotient of the reserves at
\* the token's decimals and the price in USD is that price times what
\* get_eth_usd_price answered.
\* ------------------------------------------------------------------------

\* The price request in flight has fetched the reserves of the pair.
PairReservesFetched ==
  /\ req.tool = "get_token_price"
  /\ Len(calls) >= 2
  /\ calls[2].op = "get_uniswap_pair_reserves" \/
       (Len(calls) >= 3 /\ calls[3].op = "get_uniswap_pair_reserves")

\* The call that fetched them
ReservesCall == IF calls[2].op = "get_uniswap_pair_reserves" THEN 2 ELSE 3

\* The two prices of the response, from the reserves and the ETH price
PricesFromPair(reserve_token, reserve_weth, decimals, eth_price_usd, resp) ==
  /\ resp.price_eth = DecText(Ratio(reserve_weth, reserve_token, decimals - WethDecimals))
  /\ resp.price_usd =
       DecText(RatioMul(Ratio(reserve_weth, reserve_token, decimals - WethDecimals), eth_price_usd))

\* C22: once the reserves are fetched, a zero reserve ends the lookup with
\* InsufficientLiquidity, and non-zero reserves lead to the ETH price call
\* and to the two prices computed from the reserves.
C22_TokenPricedFromPair ==
  (PairReservesFetched /\ calls[ReservesCall].ok) =>
    LET reserve_token == calls[ReservesCall].ret[1]
        reserve_weth == calls[ReservesCall].ret[2]
        decimals == calls[ReservesCall - 1].ret[1]
    IN IF reserve_token = 0 \/ reserve_weth = 0
       THEN /\ pc = "done"
            /\ result.kind = "err"
            /\ result.error.type = "InsufficientLiquidity"
            /\ Len(calls) = ReservesCall
       ELSE \/ pc = "price_uniswap_eth_usd"
            \/ /\ pc = "done"
               /\ Len(calls) = ReservesCall + 1
               /\ calls[Len(calls)].op = "get_eth_usd_price"
               /\ calls[Len(calls)].ok =>
                    /\ result.kind = "ok"
                    /\ PricesFromPair(reserve_token, reserve_weth, decimals,
                                      calls[Len(calls)].ret[1], result.resp)

\* A zero reserve is rejected before any price is computed, and a lookup
\* that succeeds reports the two prices as the quotient and its product.
TokenPriceWhenComputed ==
  (PairReservesFetched /\ calls[ReservesCall].ok) =>
    LET reserve_token == calls[ReservesCall].ret[1]
        reserve_weth == calls[ReservesCall].ret[2]
        decimals == calls[ReservesCall - 1].ret[1]
    IN /\ (reserve_token = 0 \/ reserve_weth = 0) =>
            /\ pc = "done"
            /\ result.kind = "err"
            /\ result.error.type = "InsufficientLiquidity"
            /\ Len(calls) = ReservesCall
       /\ result.kind = "ok" =>
            PricesFromPair(reserve_token, reserve_weth, decimals,
                           calls[Len(calls)].ret[1], result.resp)

\* A token whose reserve is above the range of Decimal has no price.
LargeReserveHasNoPrice ==
  /\ PairReservesFetched
  /\ calls[ReservesCall].ok
  /\ calls[ReservesCall].ret[1] > DecMaxMantissa
  /\ result.kind = "err"
  /\ result.error.type = "InvalidAmount"

\* ------------------------------------------------------------------------
\* C23: a balance lookup with a malformed wallet address fails with
\* InvalidWalletAddress and calls nothing; with a well-formed address and no
\* token contract it calls get_eth_balance only and reports 18 decimals and
\* the symbol "ETH"; with a token contract it calls get_erc20_balance only.
\* ------------------------------------------------------------------------

\* The operations the balance lookup in flight has called are all `op`.
BalanceCallsOnly(op) ==
  /\ Len(calls) <= 1
  /\ \A i \in 1..Len(calls) : calls[i].op = op

\* C23: the calls and the result of a balance lookup, by the shape of its
\* request.
C23_BalanceCallsByRequest ==
  req.tool = "get_balance" =>
    IF is_none(AddressFromStr(req.wallet_address))
    THEN /\ calls = <<>>
         /\ pc = "done"
         /\ result.kind = "err"
         /\ result.error.type = "InvalidWalletAddress"
    ELSE IF is_none(req.token_contract_address)
    THEN /\ BalanceCallsOnly("get_eth_balance")
         /\ calls = <<>> \/ calls[1].tokens = <<unwrap(AddressFromStr(req.wallet_address))>>
         /\ pc = "done" => Len(calls) = 1
         /\ result.kind = "ok" =>
              /\ result.resp.decimals = ETH_DECIMALS
              /\ result.resp.symbol = "ETH"
    ELSE /\ BalanceCallsOnly("get_erc20_balance")
         /\ result.kind = "ok" =>
              /\ Len(calls) = 1
              /\ calls[1].ok
              /\ calls[1].tokens = <<unwrap(AddressFromStr(unwrap(req.token_contract_address))),
                                     unwrap(AddressFromStr(req.wallet_address))>>
              /\ result.resp.balance = calls[1].ret[1]

\* C23 witness: a native balance was looked up with the one call of
\* get_eth_balance and reported with 18 decimals as "ETH".
C23_Witness ==
  /\ req.tool = "get_balance"
  /\ is_none(req.token_contract_address)
  /\ result.kind = "ok"
  /\ Len(calls) = 1
  /\ calls[1].op = "get_eth_balance"
  /\ result.resp.decimals = 18
  /\ result.resp.symbol = "ETH"

\* ------------------------------------------------------------------------
\* C24: a repository error that ends an operation reaches the caller as one
\* service error, of the kind its own kind decides: RpcError, NetworkError
\* and ContractError as BlockchainError, ParseError as InvalidWalletAddress,
\* Other as InternalError.
\* ------------------------------------------------------------------------

\* The variants of ServiceError
ServiceErrorKinds ==
  {"InvalidWalletAddress", "TokenNotFound", "InvalidAmount", "InsufficientBalance",
   "PriceImpactTooHigh", "SlippageExceeded", "SwapAmountTooSmall", "LiquidityPoolNotFound",
   "InsufficientLiquidity", "SwapSimulationFailed", "ExternalApiError", "BlockchainError",
   "InternalError"}

\* C24: every error returned is a service error, and one that carries a
\* repository failure was made from the failure of the last call, with the
\* kind that the failure's kind decides.
C24_RepositoryErrorConverted ==
  result.kind = "err" =>
    /\ result.error.type \in ServiceErrorKinds
    /\ result.error.src # <<>> =>
         LET kind == result.error.src[2]
         IN /\ kind \in RepositoryError
            /\ calls # <<>>
            /\ ~calls[Len(calls)].ok
            /\ calls[Len(calls)].op = result.error.src[1]
            /\ kind \in {"RpcError", "NetworkError", "ContractError"}
                 <=> result.error.type = "BlockchainError"
            /\ kind = "ParseError" <=> result.error.type = "InvalidWalletAddress"
            /\ kind = "Other" <=> result.error.type = "InternalError"

\* C24 witness: a network failure of the native balance call was returned
\* as a BlockchainError.
C24_Witness ==
  /\ req.tool = "get_balance"
  /\ result.kind = "err"
  /\ result.error.type = "BlockchainError"
  /\ result.error.src = <<"get_eth_balance", "NetworkError">>
  /\ Len(calls) = 1

\* A parse failure inside the repository is returned as InvalidWalletAddress.
RepositoryParseErrorReturned ==
  /\ result.kind = "err"
  /\ result.error.src # <<>>
  /\ result.error.src[2] = "ParseError"
  /\ result.error.type = "InvalidWalletAddress"

\* ------------------------------------------------------------------------
\* C25: a symbol the registry does not hold, as the symbol of a price
\* lookup or as either token of a swap, ends the operation with
\* TokenNotFound and no repository call; a token text that parses as an
\* address is used as that address, in the registry or not.
\* ------------------------------------------------------------------------

\* The token text is neither an address nor a symbol of the registry.
UnknownSymbol(token) ==
  /\ is_none(AddressFromStr(token))
  /\ to_uppercase(token) \notin DOMAIN registry

\* The address a token text of a swap stands for
TokenAddressOf(token) ==
  IF is_some(AddressFromStr(token)) THEN unwrap(AddressFromStr(token))
  ELSE registry[to_uppercase(token)]

\* The swap in flight was dispatched to V2 or V3.
SwapDispatched ==
  /\ req.tool = "swap_tokens"
  /\ version_branch(IF is_some(req.uniswap_version) THEN unwrap(req.uniswap_version) ELSE "v2")
       \in {"v2", "v3"}

\* The operation in flight ended with TokenNotFound and called nothing.
TokenNotFoundBeforeAnyCall ==
  /\ pc = "done"
  /\ result.kind = "err"
  /\ result.error.type = "TokenNotFound"
  /\ calls = <<>>

SwapToAddressCalled ==
  /\ SwapDispatched
  /\ req.to_token = "0x6b17"
  /\ \E i \in 1..Len(calls) : calls[i].op = "get_token_metadata" /\ calls[i].tokens = <<"0x6b17">>

\* A price lookup of the unknown symbol "FOO" ended with TokenNotFound.
PriceOfUnknownSymbol ==
  /\ req.tool = "get_token_price"
  /\ req.price_request = Some(<<"Symbol", "FOO">>)
  /\ TokenNotFoundBeforeAnyCall

\* ------------------------------------------------------------------------
\* C26: lookup returns the same for a symbol in every letter case, contains
\* holds exactly when lookup returns an address, "ETH" and "WETH" resolve to
\* one address, supported_tokens is sorted alphabetically, and the table is
\* never changed.
\* ------------------------------------------------------------------------

\* The symbol text written in lower case letters
Word(text) == CHOOSE word \in Words : chars(text) \in LetterCases(word)

\* The list is in ascending order and holds every key once.
SortedKeys(list) ==
  /\ \A i \in 1..(Len(list) - 1) : string_le(list[i], list[i + 1]) /\ list[i] # list[i + 1]
  /\ {list[i] : i \in 1..Len(list)} = DOMAIN registry
  /\ Len(list) = Cardinality(DOMAIN registry)

\* C26: the answers of the three queries of the registry, and the table
\* after them
C26_RegistryConsistent ==
  /\ service.token_registry = registry
  /\ eval.fn = "lookup" =>
       /\ \A cs \in LetterCases(Word(eval.args[1])) : lookup(concat(cs)) = eval.out
       /\ is_some(eval.out) <=> contains(eval.args[1])
       /\ to_uppercase(eval.args[1]) \in {"ETH", "WETH"} =>
            eval.out = lookup("ETH") /\ eval.out = lookup("WETH") /\ is_some(eval.out)
  /\ eval.fn = "contains" =>
       /\ eval.out <=> is_some(lookup(eval.args[1]))
       /\ \A cs \in LetterCases(Word(eval.args[1])) : contains(concat(cs)) = eval.out
  /\ eval.fn = "supported_tokens" => SortedKeys(eval.out)

\* C26 witness: "wEtH" was looked up and resolved to the address of WETH.
C26_Witness ==
  /\ eval.fn = "lookup"
  /\ eval.args = <<"wEtH">>
  /\ eval.out = Some(WETH_ADDRESS)

\* The keys were iterated in descending order and returned in ascending order.
SupportedTokensSorted ==
  /\ eval.fn = "supported_tokens"
  /\ eval.args = <<(<<"WETH", "ETH", "DAI">>)>>
  /\ eval.out = <<"DAI", "ETH", "WETH">>

\* ------------------------------------------------------------------------
\* C27: the gas a V3 swap reports is the simulation's when a from_address
\* is given and simulate_v3_swap succeeds, and the gas estimate of the
\* selected quote when the simulation fails or no from_address is given; a
\* failed simulation does not end the swap, and no simulation is attempted
\* without a from_address.
\* ------------------------------------------------------------------------

\* The swap in flight runs swap_tokens_v3.
V3Swap ==
  /\ req.tool = "swap_tokens"
  /\ is_some(req.uniswap_version)
  /\ version_branch(unwrap(req.uniswap_version)) = "v3"

\* The calls of operation op made so far
CallsOf(op) == {i \in 1..Len(calls) : calls[i].op = op}

\* The successful quote of the fee tier
QuoteOfTier(fee) ==
  CHOOSE i \in CallsOf("get_v3_quote") : calls[i].ok /\ calls[i].nums[2] = fee

\* C27: the simulation call and the reported gas of a V3 swap
C27_V3GasFromSimulationOrQuote ==
  V3Swap =>
    LET sims == CallsOf("simulate_v3_swap")
    IN /\ Cardinality(sims) <= 1
       /\ sims # {} => /\ is_some(req.from_address)
                       /\ is_some(AddressFromStr(unwrap(req.from_address)))
       /\ \A i \in sims :
            ~calls[i].ok =>
              /\ i = Len(calls) => pc = "v3_gas_price"
              /\ i < Len(calls) => calls[i + 1].op = "get_gas_price"
              /\ (result.kind = "err" /\ result.error.src # <<>>)
                   => result.error.src[1] # "simulate_v3_swap"
       /\ result.kind = "ok" =>
            LET quote == QuoteOfTier(result.resp.transaction_data.fee)
            IN /\ is_some(req.from_address) <=> sims # {}
               /\ IF \E i \in sims : calls[i].ok
                  THEN \A i \in sims : result.resp.estimated_gas = calls[i].ret[1]
                  ELSE result.resp.estimated_gas = calls[quote].ret[2]

\* C27 witness: a V3 swap with a from_address whose simulation failed
\* succeeded and reports the gas estimate of the selected quote.
C27_Witness ==
  /\ V3Swap
  /\ result.kind = "ok"
  /\ \E i \in CallsOf("simulate_v3_swap") : ~calls[i].ok
  /\ result.resp.estimated_gas = calls[QuoteOfTier(result.resp.transaction_data.fee)].ret[2]

\* A V3 swap succeeded with the gas its simulation returned.
V3GasSimulated ==
  /\ V3Swap
  /\ result.kind = "ok"
  /\ \E i \in CallsOf("simulate_v3_swap") :
       calls[i].ok /\ result.resp.estimated_gas = calls[i].ret[1]

\* A V3 swap without a from_address succeeded with the gas estimate of the
\* selected quote.
V3GasOfQuote ==
  /\ V3Swap
  /\ is_none(req.from_address)
  /\ result.kind = "ok"
  /\ result.resp.estimated_gas = calls[QuoteOfTier(result.resp.transaction_data.fee)].ret[2]

\* ------------------------------------------------------------------------
\* C28: a V2 swap without a from_address never calls simulate_swap and
\* reports the typical gas of 150000; with a from_address it calls
\* simulate_swap once, after the quote, with the parsed amount, the minimum
\* output and the path of the two tokens, and reports the simulated gas when
\* the simulation succeeds.
\* ------------------------------------------------------------------------

\* The swap in flight runs swap_tokens_v2.
V2Swap ==
  /\ req.tool = "swap_tokens"
  /\ version_branch(IF is_some(req.uniswap_version) THEN unwrap(req.uniswap_version) ELSE "v2") = "v2"

\* Call i is simulate_swap with the arguments the request and the quote
\* before it decide.
SimulatesTheQuotedSwap(i) ==
  LET quoted == CallsOf("get_swap_amounts_out")
  IN /\ Cardinality(quoted) = 1
     /\ \A q \in quoted :
          /\ q < i
          /\ calls[q].ok
          /\ calls[1].op = "get_token_metadata"
          /\ calls[i].nums[1] = parse_amount(Chars(req.amount), calls[1].ret[1]).val
          /\ calls[i].nums[2] =
               calculate_minimum_output(calls[q].ret[Len(calls[q].ret)],
                                        unwrap(DecimalFromStr(Chars(req.slippage_tolerance)))).val
     /\ calls[i].tokens = <<unwrap(req.from_address), TokenAddressOf(req.from_token),
                            TokenAddressOf(req.to_token)>>

\* C28: the simulation call and the reported gas of a V2 swap
C28_V2GasTypicalOrSimulated ==
  V2Swap =>
    LET sims == CallsOf("simulate_swap")
    IN /\ Cardinality(sims) <= 1
       /\ is_none(req.from_address) => sims = {}
       /\ \A i \in sims : SimulatesTheQuotedSwap(i)
       /\ result.kind = "ok" =>
            /\ is_some(req.from_address) => Cardinality(sims) = 1
            /\ is_none(req.from_address) => result.resp.estimated_gas = TYPICAL_GAS
            /\ \A i \in sims : calls[i].ok => result.resp.estimated_gas = calls[i].ret[1]

\* C28 witness: a V2 swap with a from_address succeeded with the gas of its
\* one simulation.
C28_Witness ==
  /\ V2Swap
  /\ is_some(req.from_address)
  /\ result.kind = "ok"
  /\ \E i \in CallsOf("simulate_swap") : calls[i].ok /\ result.resp.estimated_gas = calls[i].ret[1]
  /\ result.resp.estimated_gas # TYPICAL_GAS

\* A V2 swap without a from_address succeeded with the typical gas.
V2GasTypical ==
  /\ V2Swap
  /\ is_none(req.from_address)
  /\ result.kind = "ok"
  /\ result.resp.estimated_gas = 150000
  /\ CallsOf("simulate_swap") = {}

\* ------------------------------------------------------------------------
\* C29: in a successful V3 swap the output amount, the fee tier of the
\* transaction note, the fee tier passed to simulate_v3_swap and the gas
\* estimate used without a simulated gas are those of one quote.
\* ------------------------------------------------------------------------

\* The successful simulations of the swap in flight
SimulatedOk == {i \in CallsOf("simulate_v3_swap") : calls[i].ok}

\* C29: one quote call of the swap answered with the reported output, for
\* the reported fee tier, which the simulation was given, and with the
\* reported gas when no simulation succeeded.
C29_V3ResultFromOneQuote ==
  (V3Swap /\ result.kind = "ok") =>
    \E q \in CallsOf("get_v3_quote") :
      /\ calls[q].ok
      /\ calls[q].nums[2] = result.resp.transaction_data.fee
      /\ calls[q].ret[1] = result.resp.estimated_output_raw
      /\ calls[q].ret[1] # 0
      /\ \A i \in CallsOf("simulate_v3_swap") :
           /\ calls[i].nums[3] = calls[q].nums[2]
           /\ calls[i].nums[2] =
                calculate_minimum_output(calls[q].ret[1],
                                         unwrap(DecimalFromStr(Chars(req.slippage_tolerance)))).val
      /\ SimulatedOk = {} => result.resp.estimated_gas = calls[q].ret[2]

\* C29 witness: a V3 swap succeeded on the quote of the second tier probed,
\* after the first tier answered with a lower non-zero output, and reports
\* the gas estimate of the second.
C29_Witness ==
  /\ V3Swap
  /\ result.kind = "ok"
  /\ result.resp.transaction_data.fee = fee_tiers[2]
  /\ quotes[fee_tiers[1]].st = "ok"
  /\ quotes[fee_tiers[1]].amount_out # 0
  /\ result.resp.estimated_output_raw = quotes[fee_tiers[2]].amount_out
  /\ result.resp.estimated_gas = QuoteGas(fee_tiers[2])

\* ------------------------------------------------------------------------
\* C30: the arithmetic on raw amounts never overflows, wraps or aborts:
\* calculate_price_impact forms reserve_in + amount_in without wrap-around
\* (and reserve_out - amount_out saturating at zero), and the power of ten
\* that u256_to_decimal divides by is computed without overflow for every
\* count of decimals.
\* ------------------------------------------------------------------------

\* calculate_price_impact was applied and got past its early returns to the
\* two new reserves.
NewReservesFormed ==
  /\ eval.fn = "calculate_price_impact"
  /\ eval.value # 0 /\ eval.args[2] # 0 /\ eval.args[3] # 0
  /\ calculate_price(eval.args[3], eval.args[2], WethDecimals, WethDecimals).st = "ok"

\* C30: the sum of calculate_price_impact is the sum of its arguments, and
\* u256_to_decimal returns value / 10^decimals or fails on the value, for
\* every count of decimals.
C30_NoOverflowWrapOrAbort ==
  /\ NewReservesFormed =>
       /\ wrapping_add(eval.args[2], eval.value) = eval.args[2] + eval.value
       /\ saturating_sub(eval.args[3], eval.args[1]) >= 0
  /\ eval.fn = "u256_to_decimal" =>
       /\ eval.out.st # "panic"
       /\ eval.out.st = "ok" => eval.out.val = Ratio(eval.value, 1, -eval.args[1])
       /\ eval.out.st = "err" => is_none(DecimalFromU256(eval.value))

\* The subtraction saturates, and the power of ten is right while it fits
\* 64 bits.
PowerOfTenWithinU64 ==
  /\ NewReservesFormed =>
       saturating_sub(eval.args[3], eval.args[1]) =
         (IF eval.args[1] >= eval.args[3] THEN 0 ELSE eval.args[3] - eval.args[1])
  /\ (eval.fn = "u256_to_decimal" /\ Pow10(eval.args[1]) <= U64Max) =>
       eval.out = u256_to_decimal(eval.value, eval.args[1])

\* reserve_in + amount_in wrapped around.
SumWrapped ==
  /\ NewReservesFormed
  /\ eval.args[2] + eval.value > U256Max
  /\ wrapping_add(eval.args[2], eval.value) < eval.args[2]

\* The power of ten overflowed 64 bits: the conversion aborted, or divided
\* by the wrapped power.
PowerOfTenOverflowed ==
  /\ eval.fn = "u256_to_decimal"
  /\ Pow10(eval.args[1]) > U64Max
  /\ \/ eval.out.st = "panic"
     \/ eval.out.st = "ok" /\ eval.out.val # Ratio(eval.value, 1, -eval.args[1])

============================================================================
